---- MODULE Spec2Model ----
(***************************************************************************)
(* ApiClient.request() of src/utils/core/ApiClient.ts as a state machine:  *)
(* one client (its configuration fixed at construction) and one request    *)
(* travelling through the pipeline: request interceptor, dispatch, the     *)
(* race between the transport promise and the timeout timer, response      *)
(* interceptor, response interpretation, error mapping.                    *)
(*                                                                         *)
(* Text is modelled as a sequence of tokens.  A Content-Type value is a    *)
(* sequence of characters, a message or a status text is a sequence of     *)
(* words and blanks (" "), the empty string is <<>>.  An optional value    *)
(* (a header that may be absent, an option that may be undefined) is a     *)
(* sequence of length 0 or 1.                                              *)
(*                                                                         *)
(* Beside the request pipeline the module holds the other stateful parts   *)
(* of the library, each with its own variables and its own specification:  *)
(* a second request running on the same client, StorageManager, the        *)
(* scaffolding command runCli, and Logger.                                 *)
(***************************************************************************)
EXTENDS Integers, Sequences, FiniteSets, TLC

VARIABLES
    config,     \* the ApiClient's readonly fields
    pc,         \* where the request() call stands
    options,    \* path, method and RequestOptions of the call
    fetchCalls, \* how many times fetchImpl was invoked by this call
    transport,  \* the promise returned by fetchImpl
    timer,      \* the setTimeout timer of withTimeout
    aborted,    \* controller.signal.aborted
    wt,         \* the promise returned by withTimeout
    response,   \* the transport's response while the response interceptor runs,
                \* finalResponse after it (length 0 or 1)
    bodyUsed,   \* whether json() or text() was called on finalResponse
    outcome,    \* the promise returned by request()
    logs,       \* entries handed to the configured logger
    outbound,   \* the (url, init) pair request() built and hands to fetchImpl
                \* (length 0 or 1)
    callerAborted, \* whether the signal the caller passed in options is aborted
    peer,       \* a second request() call running on the same client
    storage,    \* the Storage a StorageManager wraps: key -> raw item (length 0 or 1)
    now,        \* Date.now()
    written,    \* per key, the value, time and TTL of the set() still in force
    result,     \* what the last StorageManager.get returned
    files,      \* the file system under process.cwd(): path -> content (length 0 or 1)
    filesBefore, \* the file system when runCli was called
    cli,        \* where the runCli call stands, and its ResourceConfig
    loggers,    \* the Logger objects created so far
    logTransports, \* the transports array the loggers share: what each transport does
    lastLog     \* the last log() call and the transports it handed its entry to

requestVars == <<config, pc, options, fetchCalls, transport, timer, aborted, wt,
                 response, bodyUsed, outcome, logs, outbound, callerAborted>>

peerVars == <<peer>>

storageVars == <<storage, now, written, result>>

cliVars == <<files, filesBefore, cli>>

loggerVars == <<loggers, logTransports, lastLog>>

\* everything but the request the pipeline follows
otherVars == <<peerVars, storageVars, cliVars, loggerVars>>

vars == <<config, pc, options, fetchCalls, transport, timer, aborted, wt,
          response, bodyUsed, outcome, logs, outbound, callerAborted,
          peer, storage, now, written, result, files, filesBefore, cli,
          loggers, logTransports, lastLog>>

-----------------------------------------------------------------------------
(* Text helpers *)

None == <<>>

Some(x) == <<x>>

\* JavaScript truthiness of a string | null | undefined held as an optional
Truthy(opt) == opt # <<>> /\ opt[1] # <<>>

\* opt || "" and opt ?? "" on a string | null
OrEmpty(opt) == IF opt = <<>> THEN <<>> ELSE opt[1]

UpperToLower ==
    [c \in {"A", "C", "I", "J", "L", "N", "O", "P", "S", "T", "X"} |->
        CASE c = "A" -> "a" [] c = "C" -> "c" [] c = "I" -> "i"
          [] c = "J" -> "j" [] c = "L" -> "l" [] c = "N" -> "n"
          [] c = "O" -> "o" [] c = "P" -> "p" [] c = "S" -> "s"
          [] c = "T" -> "t" [] c = "X" -> "x"]

LowerCase(s) ==
    [i \in 1..Len(s) |-> IF s[i] \in DOMAIN UpperToLower THEN UpperToLower[s[i]] ELSE s[i]]

\* String.prototype.includes
Includes(s, sub) ==
    \E i \in 1..(Len(s) - Len(sub) + 1) : SubSeq(s, i, i + Len(sub) - 1) = sub

JSON_WORD == <<"j", "s", "o", "n">>

\* a test for "json" that minds the letter case
TestJsonSameCase(s) == Includes(s, JSON_WORD)

\* /json/i.test(s)
TestJsonIgnoreCase(s) == Includes(LowerCase(s), JSON_WORD)

IsBlank(tok) == tok = " "

RECURSIVE TrimStart(_)
TrimStart(s) ==
    IF s # <<>> /\ IsBlank(Head(s)) THEN TrimStart(Tail(s)) ELSE s

RECURSIVE TrimEnd(_)
TrimEnd(s) ==
    IF s # <<>> /\ IsBlank(s[Len(s)]) THEN TrimEnd(SubSeq(s, 1, Len(s) - 1)) ELSE s

\* String.prototype.trim
Trim(s) == TrimEnd(TrimStart(s))

\* String.prototype.startsWith / endsWith for a one-token pattern
StartsWith(s, tok) == s # <<>> /\ s[1] = tok

EndsWith(s, tok) == s # <<>> /\ s[Len(s)] = tok

\* {...a, ...b} on two dictionaries: the entries of b win
Spread(a, b) ==
    [k \in (DOMAIN a) \cup (DOMAIN b) |-> IF k \in DOMAIN b THEN b[k] ELSE a[k]]

\* dict[key] ?? {} : the dictionary under key, the empty one when there is none
EntryOrEmpty(dict, key) == IF key \in DOMAIN dict THEN dict[key] ELSE <<>>

\* Array.from(new Set(list)): duplicates dropped, first occurrence kept
RECURSIVE Dedupe(_)
Dedupe(list) ==
    IF list = <<>> THEN <<>>
    ELSE LET init == Dedupe(SubSeq(list, 1, Len(list) - 1))
             last == list[Len(list)]
         IN IF \E i \in 1..Len(init) : init[i] = last THEN init ELSE Append(init, last)

-----------------------------------------------------------------------------
(* Values a request resolves to, and error bodies *)

NoJson == <<>>

Undefined == [t |-> "undefined", text |-> "", json |-> NoJson]

Null == [t |-> "null", text |-> "", json |-> NoJson]

TextVal(s) == [t |-> "text", text |-> s, json |-> NoJson]

JsonVal(j) == [t |-> "json", text |-> "", json |-> j]

(* Errors *)

ApiError(status, statusText, message, body, isTimeout) ==
    [name |-> "ApiError", status |-> status, statusText |-> statusText,
     message |-> message, body |-> body, isTimeout |-> isTimeout]

\* any error that is not an ApiError: only its name and message matter
OtherError(name, message) ==
    [name |-> name, status |-> 0, statusText |-> <<>>,
     message |-> <<message>>, body |-> Undefined, isTimeout |-> FALSE]

NoError == OtherError("", "")

TimeoutError == ApiError(408, <<"Timeout">>, <<"Request", " ", "timeout">>, Null, TRUE)

-----------------------------------------------------------------------------
(* Default error messages and localization *)

DEFAULT_ERROR_MESSAGES ==
    [loc \in {"es", "en"} |->
        IF loc = "es"
        THEN [s \in {400, 401, 403, 404, 408, 429, 500, 502, 503, 504} |->
                CASE s = 400 -> <<"La solicitud es inválida. Verifica los datos enviados.">>
                  [] s = 401 -> <<"Necesitas iniciar sesión para continuar.">>
                  [] s = 403 -> <<"No tienes permisos para realizar esta acción.">>
                  [] s = 404 -> <<"El recurso solicitado no fue encontrado.">>
                  [] s = 408 -> <<"La solicitud tardó demasiado en responder.">>
                  [] s = 429 -> <<"Demasiadas solicitudes. Intenta nuevamente más tarde.">>
                  [] s = 500 -> <<"Ocurrió un error interno en el servidor.">>
                  [] s = 502 -> <<"Puerta de enlace inválida.">>
                  [] s = 503 -> <<"Servicio no disponible temporalmente.">>
                  [] s = 504 -> <<"Tiempo de espera agotado.">>]
        ELSE [s \in {400, 401, 403, 404, 408, 429, 500, 502, 503, 504} |->
                CASE s = 400 -> <<"Invalid request. Please check your data.">>
                  [] s = 401 -> <<"You must be signed in to continue.">>
                  [] s = 403 -> <<"You don't have permission for this action.">>
                  [] s = 404 -> <<"Resource not found.">>
                  [] s = 408 -> <<"Request timeout.">>
                  [] s = 429 -> <<"Too many requests. Try again later.">>
                  [] s = 500 -> <<"Internal server error.">>
                  [] s = 502 -> <<"Bad gateway.">>
                  [] s = 503 -> <<"Service unavailable.">>
                  [] s = 504 -> <<"Gateway timeout.">>]]

\* `Error de red (${status} ${text})`.trim() and its English twin
\* (each template is held as the words that precede ${status})
GENERIC_ERROR_MESSAGE ==
    [loc \in {"es", "en"} |->
        IF loc = "es" THEN <<"Error", " ", "de", " ", "red", " ", "(">>
                      ELSE <<"Network", " ", "error", " ", "(">>]

\* a template of GENERIC_ERROR_MESSAGE applied to (status, text)
ApplyGeneric(template, status, text) ==
    Trim(template \o <<ToString(status)>> \o <<" ">> \o text \o <<")">>)

-----------------------------------------------------------------------------
(* URLs: new URL(input, base), URL.search, URL.toString()                   *)
(*                                                                         *)
(* A URL string is a sequence of tokens: a scheme with its colon           *)
(* ("https:"), the separators "/", "?", "&" and "=", and the words between *)
(* them.  A parsed URL holds its path as the list of its segments ("/v1/"  *)
(* is <<"v1", "">>) and its query as an optional token sequence, absent    *)
(* when the string has no "?".  The addresses of the model are ones the    *)
(* URL parser accepts.                                                     *)

Schemes == {"https:"}

HasQuery(s) == \E i \in 1..Len(s) : s[i] = "?"

QueryIndex(s) ==
    IF HasQuery(s)
    THEN CHOOSE i \in 1..Len(s) : s[i] = "?" /\ \A j \in 1..(i - 1) : s[j] # "?"
    ELSE Len(s) + 1

BeforeQuery(s) == SubSeq(s, 1, QueryIndex(s) - 1)

AfterQuery(s) == IF HasQuery(s) THEN Some(SubSeq(s, QueryIndex(s) + 1, Len(s))) ELSE None

\* the segments of a path string, split at "/"
RECURSIVE Segments(_)
Segments(s) ==
    IF s = <<>> THEN <<"">>
    ELSE IF Head(s) = "/" THEN <<"">> \o Segments(Tail(s))
    ELSE IF Len(s) = 1 THEN <<s[1]>>
    ELSE IF s[2] = "/" THEN <<s[1]>> \o Segments(SubSeq(s, 3, Len(s)))
    ELSE Segments(<<s[1] \o s[2]>> \o SubSeq(s, 3, Len(s)))

\* the parser's "shorten a path"
Shorten(path) == IF path = <<>> THEN <<>> ELSE SubSeq(path, 1, Len(path) - 1)

\* the parser's path state: ".." removes a segment, "." is skipped, both leave a
\* trailing slash when they come last
RECURSIVE Walk(_, _)
Walk(path, segs) ==
    IF segs = <<>> THEN path
    ELSE LET seg == Head(segs)
             last == Len(segs) = 1
             next == CASE seg = ".." -> IF last THEN Append(Shorten(path), "")
                                                ELSE Shorten(path)
                       [] seg = "."  -> IF last THEN Append(path, "") ELSE path
                       [] OTHER      -> Append(path, seg)
         IN Walk(next, Tail(segs))

MakeUrl(scheme, host, path, query) ==
    [scheme |-> scheme, host |-> host, path |-> path, query |-> query]

RECURSIVE SkipSlashes(_)
SkipSlashes(s) == IF StartsWith(s, "/") THEN SkipSlashes(Tail(s)) ELSE s

\* the parser after a scheme or at a reference that starts with "//": slashes are
\* skipped, the next word is the host, the rest is the path
Authority(scheme, rest, query) ==
    LET r == SkipSlashes(rest)
        after == Tail(r)
        path == IF StartsWith(after, "/") THEN Tail(after) ELSE after
    IN MakeUrl(scheme, r[1], Walk(<<>>, Segments(path)), query)

\* new URL(input, base); base is optional
NewURL(input, base) ==
    LET ref == BeforeQuery(input)
        query == AfterQuery(input)
    IN IF ref # <<>> /\ ref[1] \in Schemes
       THEN Authority(ref[1], Tail(ref), query)
       ELSE LET b == base[1]
            IN IF Len(ref) >= 2 /\ ref[1] = "/" /\ ref[2] = "/"
               THEN Authority(b.scheme, ref, query)
               ELSE IF StartsWith(ref, "/")
               THEN MakeUrl(b.scheme, b.host, Walk(<<>>, Segments(Tail(ref))), query)
               ELSE IF ref = <<>>
               THEN MakeUrl(b.scheme, b.host, b.path,
                            IF query = None THEN b.query ELSE query)
               ELSE MakeUrl(b.scheme, b.host, Walk(Shorten(b.path), Segments(ref)), query)

RECURSIVE PathTokens(_)
PathTokens(path) ==
    IF path = <<>> THEN <<>>
    ELSE <<"/">> \o (IF Head(path) = "" THEN <<>> ELSE <<Head(path)>>)
                 \o PathTokens(Tail(path))

\* URL.toString()
Href(url) ==
    <<url.scheme, "/", "/", url.host>> \o PathTokens(url.path)
        \o (IF url.query = None THEN <<>> ELSE <<"?">> \o url.query[1])

\* URL.origin
Origin(url) == <<url.scheme, "/", "/", url.host>>

\* the getter of URL.search
Search(url) ==
    IF url.query = None \/ url.query[1] = <<>> THEN <<>> ELSE <<"?">> \o url.query[1]

\* the setter of URL.search
SetSearch(url, value) ==
    [url EXCEPT !.query = IF value = <<>> THEN None
                          ELSE Some(IF StartsWith(value, "?") THEN Tail(value) ELSE value)]

\* the constructor's this.baseUrl
ConstructBaseUrl(baseUrl) ==
    NewURL(IF EndsWith(baseUrl, "/") THEN baseUrl ELSE baseUrl \o <<"/">>, None)

-----------------------------------------------------------------------------
(* StringUtils.toQueryString                                                *)
(*                                                                         *)
(* A params object is the list of its <<key, value>> entries in insertion  *)
(* order.  A value is a record: t is its kind, text the String() form of a *)
(* string or a number, flag the value of a boolean, items the elements of  *)
(* an array, props the entries of a nested object.                         *)

Scalar(word) ==
    [t |-> "scalar", text |-> word, flag |-> FALSE, items |-> <<>>, props |-> <<>>]

Bool(b) ==
    [t |-> "boolean", text |-> "", flag |-> b, items |-> <<>>, props |-> <<>>]

List(values) ==
    [t |-> "array", text |-> "", flag |-> FALSE, items |-> values, props |-> <<>>]

Obj(entries) ==
    [t |-> "object", text |-> "", flag |-> FALSE, items |-> <<>>, props |-> entries]

NullParam ==
    [t |-> "null", text |-> "", flag |-> FALSE, items |-> <<>>, props |-> <<>>]

UndefinedParam ==
    [t |-> "undefined", text |-> "", flag |-> FALSE, items |-> <<>>, props |-> <<>>]

DEFAULT_QUERY_OPTIONS ==
    [arrayFormat |-> "repeat", skipNull |-> TRUE, skipEmptyString |-> FALSE,
     encode |-> TRUE, sortKeys |-> TRUE]

\* the keys of the model in the order localeCompare puts them
KeyOrder == <<"active", "filters", "kind", "page", "q", "status", "tag", "tags">>

Rank(key) == CHOOSE i \in 1..Len(KeyOrder) : KeyOrder[i] = key

\* a sort that leaves the entries in insertion order
KeepOrder(entries) == entries

\* entries.sort(([a], [b]) => a.localeCompare(b)), as an insertion sort
RECURSIVE SortEntries(_)
SortEntries(entries) ==
    IF entries = <<>> THEN <<>>
    ELSE LET sorted == SortEntries(SubSeq(entries, 1, Len(entries) - 1))
             e == entries[Len(entries)]
             n == Cardinality({i \in 1..Len(sorted) : Rank(sorted[i][1]) <= Rank(e[1])})
         IN SubSeq(sorted, 1, n) \o <<e>> \o SubSeq(sorted, n + 1, Len(sorted))

\* serializeValue(value) of a boolean, a number or a string
serializeValue(value) ==
    IF value.t = "boolean" THEN (IF value.flag THEN "true" ELSE "false") ELSE value.text

\* encodeURIComponent on the words of the model
EncodeTable ==
    ("a b" :> "a%20b") @@ ("x&y" :> "x%26y")
    @@ ("filters[status]" :> "filters%5Bstatus%5D")
    @@ ("filters[kind]" :> "filters%5Bkind%5D")

encodePair(value, encode) ==
    IF encode /\ value \in DOMAIN EncodeTable THEN EncodeTable[value] ELSE value

\* the serialized elements of an array in "comma" format, joined
RECURSIVE JoinComma(_, _)
JoinComma(values, opts) ==
    IF values = <<>> THEN ""
    ELSE LET head == serializeValue(Head(values))
             rest == JoinComma(Tail(values), opts)
         IN IF opts.skipEmptyString /\ head = "" THEN rest
            ELSE IF rest = "" THEN head ELSE head \o "," \o rest

RECURSIVE buildQueryPairs(_, _, _)
RECURSIVE PairsOfItems(_, _, _)
RECURSIVE PairsOfProps(_, _, _)

\* the loop over the elements of an array
PairsOfItems(key, values, opts) ==
    IF values = <<>> THEN <<>>
    ELSE buildQueryPairs(key, Head(values), opts) \o PairsOfItems(key, Tail(values), opts)

\* the loop over the entries of a nested object
PairsOfProps(key, entries, opts) ==
    IF entries = <<>> THEN <<>>
    ELSE buildQueryPairs(IF key # "" THEN key \o "[" \o Head(entries)[1] \o "]"
                         ELSE Head(entries)[1],
                         Head(entries)[2], opts)
         \o PairsOfProps(key, Tail(entries), opts)

buildQueryPairs(key, value, opts) ==
    CASE value.t = "undefined" -> <<>>
      [] value.t = "null" -> IF opts.skipNull THEN <<>> ELSE << <<key, "">> >>
      [] value.t = "array" ->
            IF value.items = <<>> THEN <<>>
            ELSE IF opts.arrayFormat = "comma"
            THEN (IF JoinComma(value.items, opts) # "" \/ ~opts.skipEmptyString
                  THEN << <<key, JoinComma(value.items, opts)>> >> ELSE <<>>)
            ELSE PairsOfItems(IF opts.arrayFormat = "bracket" THEN key \o "[]" ELSE key,
                              value.items, opts)
      [] value.t = "object" ->
            PairsOfProps(key, IF opts.sortKeys THEN SortEntries(value.props)
                              ELSE value.props, opts)
      [] OTHER ->
            IF opts.skipEmptyString /\ serializeValue(value) = "" THEN <<>>
            ELSE << <<key, serializeValue(value)>> >>

\* the loop of toQueryString over the entries of params
RECURSIVE AllPairs(_, _)
AllPairs(entries, opts) ==
    IF entries = <<>> THEN <<>>
    ELSE buildQueryPairs(Head(entries)[1], Head(entries)[2], opts)
         \o AllPairs(Tail(entries), opts)

RECURSIVE JoinPairs(_, _)
JoinPairs(pairs, encode) ==
    IF pairs = <<>> THEN <<>>
    ELSE <<encodePair(pairs[1][1], encode), "=", encodePair(pairs[1][2], encode)>>
         \o (IF Len(pairs) = 1 THEN <<>> ELSE <<"&">> \o JoinPairs(Tail(pairs), encode))

\* StringUtils.toQueryString(params) with no customOptions; params is optional
toQueryString(params) ==
    IF params = None THEN <<>>
    ELSE LET opts == DEFAULT_QUERY_OPTIONS
             entries == IF opts.sortKeys THEN SortEntries(params[1]) ELSE params[1]
         IN JoinPairs(AllPairs(entries, opts), opts.encode)

-----------------------------------------------------------------------------
(* Headers                                                                 *)
(*                                                                         *)
(* A HeadersInit is a list of <<name, value>> pairs, names as written; a   *)
(* Headers object is a function from lower-case names to values.           *)

\* Headers.append(name, value)
HeadersAppend(h, name, value) ==
    LET n == LowerCase(name)
    IN IF n \in DOMAIN h
       THEN [h EXCEPT ![n] = h[n] \o <<",", " ">> \o value]
       ELSE h @@ (n :> value)

\* Headers.set(name, value)
HeadersSet(h, name, value) ==
    LET n == LowerCase(name)
    IN [k \in (DOMAIN h) \cup {n} |-> IF k = n THEN value ELSE h[k]]

\* new Headers(init)
RECURSIVE NewHeaders(_)
NewHeaders(init) ==
    IF init = <<>> THEN <<>>
    ELSE HeadersAppend(NewHeaders(SubSeq(init, 1, Len(init) - 1)),
                       init[Len(init)][1], init[Len(init)][2])

-----------------------------------------------------------------------------
(* Request bodies                                                          *)

NoBody == [kind |-> "undefined", text |-> "", props |-> <<>>]

StringBody(s) == [kind |-> "string", text |-> s, props |-> <<>>]

FormDataBody == [kind |-> "FormData", text |-> "", props |-> <<>>]

BlobBody == [kind |-> "Blob", text |-> "", props |-> <<>>]

ArrayBufferBody == [kind |-> "ArrayBuffer", text |-> "", props |-> <<>>]

\* a plain object: props is the list of its [key, t, val] properties
ObjectBody(props) == [kind |-> "object", text |-> "", props |-> props]

\* !body
Falsy(body) == body.kind = "undefined" \/ (body.kind = "string" /\ body.text = "")

\* JSON.stringify of a property value (the strings of the model need no escaping)
StringifyValue(p) == IF p.t = "string" THEN "\"" \o p.val \o "\"" ELSE p.val

\* the properties JSON.stringify writes: those whose value is undefined are left out
RECURSIVE Written(_)
Written(props) ==
    IF props = <<>> THEN <<>>
    ELSE (IF Head(props).t = "undefined" THEN <<>> ELSE <<Head(props)>>)
         \o Written(Tail(props))

RECURSIVE StringifyProps(_)
StringifyProps(props) ==
    IF props = <<>> THEN ""
    ELSE "\"" \o Head(props).key \o "\":" \o StringifyValue(Head(props))
         \o (IF Len(props) = 1 THEN "" ELSE "," \o StringifyProps(Tail(props)))

\* JSON.stringify(body) of a plain object
JSONStringify(body) == "{" \o StringifyProps(Written(body.props)) \o "}"

-----------------------------------------------------------------------------
(* The inputs the model draws from *)

Locales == {"es", "en", "fr"}

ErrorLocales == {None} \cup {Some(l) : l \in Locales}

Paths == {<<"/", "users">>}

CT_JSON == <<"a", "p", "p", "l", "i", "c", "a", "t", "i", "o", "n", "/", "j", "s", "o", "n">>

CT_JSON_UPPER == <<"A", "p", "p", "l", "i", "c", "a", "t", "i", "o", "n", "/", "J", "S", "O", "N">>

CT_TEXT == <<"t", "e", "x", "t", "/", "p", "l", "a", "i", "n">>

BASE_ROOT == <<"https:", "/", "/", "api.test", "/">>

BASE_V1 == <<"https:", "/", "/", "api.test", "/", "v1", "/">>

BASE_V1_OPEN == <<"https:", "/", "/", "api.test", "/", "v1">>

BASE_V1_QUERY == <<"https:", "/", "/", "api.test", "/", "v1", "/", "?", "key", "=", "1">>

BaseUrls == {BASE_ROOT, BASE_V1, BASE_V1_OPEN, BASE_V1_QUERY}

\* the paths a caller may pass: relative ones, with leading slashes, with dot
\* segments, with a query, and addresses of another host
RelativePaths ==
    { <<>>,
      <<"users">>,
      <<"users", "/", "7">>,
      <<"..", "/", "users">>,
      <<"users", "?", "x", "=", "1">>,
      <<"https:", "/", "/", "evil.test", "/", "x">> }

SlashPaths ==
    { <<"/">> \o p : p \in RelativePaths }
        \cup { <<"/", "/", "evil.test", "/", "x">>,
               <<"/", "/", "/", "evil.test", "/", "x">> }

RequestPaths == RelativePaths \cup SlashPaths

SearchParamSets ==
    { None,
      Some(<<>>),
      Some(<< <<"page", Scalar("2")>> >>),
      Some(<< <<"tag", List(<<Scalar("a b"), Scalar("c")>>)>>,
              <<"page", Scalar("2")>>,
              <<"q", NullParam>> >>),
      Some(<< <<"tags", List(<<Scalar("a"), Scalar("b")>>)>>,
              <<"active", Bool(TRUE)>> >>),
      Some(<< <<"active", Bool(TRUE)>>,
              <<"tags", List(<<Scalar("a"), Scalar("b")>>)>> >>),
      Some(<< <<"q", UndefinedParam>>,
              <<"filters", Obj(<< <<"status", Scalar("open")>>,
                                  <<"kind", Scalar("x&y")>> >>)>>,
              <<"active", Bool(FALSE)>> >>) }

H_CONTENT_TYPE == <<"C", "o", "n", "t", "e", "n", "t", "-", "T", "y", "p", "e">>

H_TEAM == <<"X", "-", "T", "e", "a", "m">>

H_TRACE == <<"X", "-", "T", "r", "a", "c", "e">>

DefaultHeaderSets ==
    { <<>>,
      << <<H_TEAM, <<"nubi">>>> >>,
      << <<H_TEAM, <<"nubi">>>>, <<LowerCase(H_CONTENT_TYPE), CT_TEXT>> >> }

OverrideHeaderSets ==
    { None,
      Some(<< <<LowerCase(H_TEAM), <<"core">>>> >>),
      Some(<< <<H_TRACE, <<"t1">>>> >>),
      Some(<< <<H_CONTENT_TYPE, CT_TEXT>> >>) }

ObjectBodies ==
    { ObjectBody(<<>>),
      ObjectBody(<<[key |-> "name", t |-> "string", val |-> "Ana"]>>),
      ObjectBody(<<[key |-> "name", t |-> "string", val |-> "Ana"],
                   [key |-> "age", t |-> "number", val |-> "30"]>>),
      ObjectBody(<<[key |-> "nick", t |-> "undefined", val |-> ""],
                   [key |-> "ok", t |-> "boolean", val |-> "true"]>>) }

RequestBodies ==
    { NoBody, StringBody(""), StringBody("hola"), FormDataBody, BlobBody,
      ArrayBufferBody } \cup ObjectBodies

Signals == {None, Some("caller")}

\* errorMessages of the configuration: locale -> status -> message
OverrideConfigs ==
    { <<>>,
      ("es" :> ((404 :> <<"Recurso inexistente.">>) @@ (418 :> <<"Soy una tetera">>))),
      ("en" :> (404 :> <<"Nothing here.">>)) @@ ("fr" :> (404 :> <<"Ressource introuvable.">>)),
      ("es" :> (404 :> <<>>)) }

Configs ==
    [baseUrl : {ConstructBaseUrl(BASE_ROOT)},
     headers : {<<>>},
     locale : Locales,
     errorMessages : OverrideConfigs,
     requestInterceptor : BOOLEAN,
     responseInterceptor : BOOLEAN,
     logger : BOOLEAN,
     logTransport : {"ok"}]

ContentTypes == {None, Some(CT_JSON), Some(CT_JSON_UPPER), Some(CT_TEXT)}

ContentLengths == {None, Some(<<"0">>), Some(<<"1", "3">>)}

MakeHeaders(ct, cl) ==
    [n \in (IF ct = None THEN {} ELSE {"content-type"})
           \cup (IF cl = None THEN {} ELSE {"content-length"}) |->
        IF n = "content-type" THEN ct[1] ELSE cl[1]]

BODY_USERS == "[{\"id\":\"1\"}]"

\* what the body stream holds, and whether reading it fails
Bodies ==
    { [text |-> "", broken |-> FALSE],
      [text |-> BODY_USERS, broken |-> FALSE],
      [text |-> BODY_USERS, broken |-> TRUE] }

Statuses == {200, 204, 404, 418}

StatusTexts == {<<>>, <<"Not", " ", "Found">>}

Responses ==
    { [status |-> s, statusText |-> st, headers |-> MakeHeaders(ct, cl), body |-> b] :
        s \in Statuses, st \in StatusTexts, ct \in ContentTypes,
        cl \in ContentLengths, b \in Bodies }

\* what a response interceptor may hand back in place of the transport's response
SubstituteResponses ==
    { [status |-> 200, statusText |-> <<>>,
       headers |-> MakeHeaders(Some(CT_JSON), Some(<<"1", "3">>)),
       body |-> [text |-> BODY_USERS, broken |-> FALSE]],
      [status |-> 404, statusText |-> <<"Not", " ", "Found">>,
       headers |-> MakeHeaders(None, None),
       body |-> [text |-> "", broken |-> FALSE]] }

\* what the transport may reject with
TransportErrors ==
    { OtherError("TypeError", "fetch failed"),
      OtherError("AbortError", "This operation was aborted") }

-----------------------------------------------------------------------------
(* The Response-like object of the transport *)

\* Headers.get(name): the value, or null
HeadersGet(headers, name) ==
    IF name \in DOMAIN headers THEN Some(headers[name]) ELSE None

\* Response.ok
Ok(res) == res.status >= 200 /\ res.status <= 299

\* JSON.parse on the body texts of the model: the value, or none on a SyntaxError
JsonParse(text) ==
    IF text = BODY_USERS THEN Some(<<[id |-> "1"]>>) ELSE None

\* await response.json(): [ok, value] or [ok = FALSE, error]
ReadJson(res) ==
    IF res.body.broken
    THEN [ok |-> FALSE, value |-> Undefined, error |-> OtherError("TypeError", "terminated")]
    ELSE IF JsonParse(res.body.text) = None
    THEN [ok |-> FALSE, value |-> Undefined,
          error |-> OtherError("SyntaxError", "Unexpected token")]
    ELSE [ok |-> TRUE, value |-> JsonVal(JsonParse(res.body.text)[1]), error |-> NoError]

\* await response.text()
ReadText(res) ==
    IF res.body.broken
    THEN [ok |-> FALSE, value |-> Undefined, error |-> OtherError("TypeError", "terminated")]
    ELSE [ok |-> TRUE, value |-> TextVal(res.body.text), error |-> NoError]

-----------------------------------------------------------------------------
(* Error mapping *)

\* [override, this.locale, "es", "en"].filter(Boolean), de-duplicated
getLocalePreference(override) ==
    Dedupe(override \o <<config.locale, "es", "en">>)

\* the dictionary resolveErrorMessage builds for one locale
MessageDict(loc) ==
    Spread(EntryOrEmpty(DEFAULT_ERROR_MESSAGES, loc),
           EntryOrEmpty(config.errorMessages, loc))

\* dict[status], undefined when there is no entry
DictGet(dict, status) ==
    IF status \in DOMAIN dict THEN Some(dict[status]) ELSE None

\* the for loop of resolveErrorMessage: the first truthy dict[status], if any
RECURSIVE FirstMessage(_, _)
FirstMessage(locales, status) ==
    IF locales = <<>> THEN None
    ELSE IF Truthy(DictGet(MessageDict(Head(locales)), status))
    THEN DictGet(MessageDict(Head(locales)), status)
    ELSE FirstMessage(Tail(locales), status)

\* a generic message phrased in the per-call errorLocale when one is given
GenericMessageByErrorLocale(status, statusText) ==
    LET loc == IF options.errorLocale # None THEN options.errorLocale[1] ELSE config.locale
    IN ApplyGeneric(IF loc \in DOMAIN GENERIC_ERROR_MESSAGE
                    THEN GENERIC_ERROR_MESSAGE[loc]
                    ELSE GENERIC_ERROR_MESSAGE["es"],
                    status, statusText)

\* (GENERIC_ERROR_MESSAGE[this.locale] ?? GENERIC_ERROR_MESSAGE.es)(status, statusText)
GenericMessage(status, statusText) ==
    ApplyGeneric(IF config.locale \in DOMAIN GENERIC_ERROR_MESSAGE
                 THEN GENERIC_ERROR_MESSAGE[config.locale]
                 ELSE GENERIC_ERROR_MESSAGE["es"],
                 status, statusText)

resolveErrorMessage(status, statusText, overrideLocale) ==
    LET hit == FirstMessage(getLocalePreference(overrideLocale), status)
    IN IF hit # None THEN hit[1] ELSE GenericMessage(status, statusText)

\* the body read inside the try of toApiError
ErrorBodyRead(res) ==
    LET type == OrEmpty(HeadersGet(res.headers, "content-type"))
    IN IF Includes(type, JSON_WORD) THEN ReadJson(res) ELSE ReadText(res)

\* the try/catch of toApiError: the body, null when reading or parsing fails
ErrorBody(res) ==
    IF ErrorBodyRead(res).ok THEN ErrorBodyRead(res).value ELSE Null

toApiError(res, locale) ==
    ApiError(res.status, res.statusText,
             resolveErrorMessage(res.status, res.statusText, locale),
             ErrorBody(res), FALSE)

-----------------------------------------------------------------------------
(* StorageManager                                                          *)
(*                                                                         *)
(* The underlying Storage maps a key to an optional string.  The clock     *)
(* Date.now() is the variable now, in milliseconds.                        *)

MaxNow == 4

StorageKeys == {"session", "theme"}

StorageValues == {"abc", "xyz"}

\* the ttlMs argument: omitted, or a number of milliseconds
Ttls == {None, Some(0), Some(1), Some(2)}

\* an entry of the Storage that is not JSON
CORRUPT == "{oops"

\* JSON.stringify({ value, expires })
StringifyData(data) ==
    "{\"value\":\"" \o data.value \o "\",\"expires\":"
        \o (IF data.expires = None THEN "null" ELSE ToString(data.expires[1])) \o "}"

\* the { value, expires } objects StringifyData can produce within the bounds
StoredData ==
    [value : StorageValues, expires : {None} \cup {Some(n) : n \in 1..(MaxNow + 2)}]

\* JSON.parse(raw): the object whose text raw is, none when raw is not JSON
ParseData(raw) ==
    LET hits == {data \in StoredData : StringifyData(data) = raw}
    IN IF hits = {} THEN None ELSE Some(CHOOSE data \in hits : TRUE)

\* ttlMs ? Date.now() + ttlMs : null   (undefined and 0 are falsy)
ExpiresOf(ttlMs, at) ==
    IF ttlMs = None \/ ttlMs[1] = 0 THEN None ELSE Some(at + ttlMs[1])

\* the result of the last get: no get yet, or the key asked for and what came back
\* (null is None)
GetResult(key, value) == Some([key |-> key, value |-> value])

-----------------------------------------------------------------------------
(* The scaffolding command: runCli(["create", <resource>, ...flags])        *)
(*                                                                         *)
(* A resource name is a sequence of characters; a flag is a sequence of    *)
(* tokens: the dashes "--", the key, and after an "=" the characters of    *)
(* the value.  The file system is a function from the paths that exist     *)
(* (relative to the working directory, as strings) to their contents.      *)
(* The content of a generated file is the record of what its template was  *)
(* filled with.                                                            *)

DEFAULT_API_DIR == <<"api">>

DEFAULT_HOOKS_DIR == <<"hooks">>

\* the text of a token sequence
RECURSIVE Str(_)
Str(toks) == IF toks = <<>> THEN "" ELSE Head(toks) \o Str(Tail(toks))

\* Array.prototype.join on a list of token sequences
RECURSIVE JoinWith(_, _)
JoinWith(parts, sep) ==
    IF parts = <<>> THEN <<>>
    ELSE IF Len(parts) = 1 THEN parts[1]
    ELSE parts[1] \o <<sep>> \o JoinWith(Tail(parts), sep)

\* String.prototype.split on the characters of seps, empty pieces included
RECURSIVE SplitOn(_, _)
SplitOn(chars, seps) ==
    IF \A i \in 1..Len(chars) : chars[i] \notin seps THEN <<chars>>
    ELSE LET at == CHOOSE i \in 1..Len(chars) :
                       chars[i] \in seps /\ \A j \in 1..(i - 1) : chars[j] \notin seps
         IN <<SubSeq(chars, 1, at - 1)>> \o SplitOn(SubSeq(chars, at + 1, Len(chars)), seps)

\* .filter(Boolean) on a list of strings
RECURSIVE FilterBoolean(_)
FilterBoolean(parts) ==
    IF parts = <<>> THEN <<>>
    ELSE (IF Head(parts) = <<>> THEN <<>> ELSE <<Head(parts)>>) \o FilterBoolean(Tail(parts))

\* the characters of the model that are not in [a-zA-Z0-9]
NonAlphanumeric == {"-", "_", "/", ".", " "}

LowerToUpper ==
    [c \in {"a", "c", "p", "u"} |->
        CASE c = "a" -> "A" [] c = "c" -> "C" [] c = "p" -> "P" [] c = "u" -> "U"]

\* String.prototype.toUpperCase on one character
UpperCaseChar(c) == IF c \in DOMAIN LowerToUpper THEN LowerToUpper[c] ELSE c

\* segment[0].toUpperCase() + segment.slice(1).toLowerCase()
Capitalize(segment) == <<UpperCaseChar(segment[1])>> \o LowerCase(Tail(segment))

RECURSIVE CapitalizeAll(_)
CapitalizeAll(parts) ==
    IF parts = <<>> THEN <<>> ELSE Capitalize(Head(parts)) \o CapitalizeAll(Tail(parts))

toPascalCase(value) == CapitalizeAll(FilterBoolean(SplitOn(value, NonAlphanumeric)))

\* String.prototype.endsWith for a pattern of several characters
EndsWithAll(chars, pattern) ==
    /\ Len(chars) >= Len(pattern)
    /\ SubSeq(chars, Len(chars) - Len(pattern) + 1, Len(chars)) = pattern

toSingular(value) ==
    LET lower == LowerCase(value)
    IN IF EndsWithAll(lower, <<"i", "e", "s">>)
       THEN SubSeq(value, 1, Len(value) - 3) \o <<"y">>
       ELSE IF EndsWithAll(lower, <<"s">>)
       THEN SubSeq(value, 1, Len(value) - 1)
       ELSE value

\* the flags
FLAG_FORCE == <<"--", "force">>

FLAG_FORCE_TRUE == <<"--", "force", "=", "t", "r", "u", "e">>

FLAG_FORCE_FALSE == <<"--", "force", "=", "f", "a", "l", "s", "e">>

FLAG_ROUTE == <<"--", "route", "=", "v", "2">>

FLAG_UNKNOWN == <<"--", "dry">>

STRAY_ARG == <<"now">>

NoFlags == [force |-> None, route |-> None]

\* one round of the loop of parseCreateFlags (apiDir and hooksDir are not among the
\* flags of the model)
ParseFlag(flags, arg) ==
    IF ~StartsWith(arg, "--") THEN flags
    ELSE LET pieces == SplitOn(Tail(arg), {"="})
             key == Str(pieces[1])
             rawValue == IF Len(pieces) = 1 THEN None ELSE Some(pieces[2])
         IN IF key = "force"
            THEN [flags EXCEPT !.force =
                     Some(IF rawValue = None THEN TRUE
                          ELSE rawValue[1] = <<"t", "r", "u", "e">>)]
            ELSE IF rawValue = None THEN flags
            ELSE IF key = "route" THEN [flags EXCEPT !.route = rawValue]
            ELSE flags

RECURSIVE ParseFrom(_, _)
ParseFrom(flags, args) ==
    IF args = <<>> THEN flags ELSE ParseFrom(ParseFlag(flags, Head(args)), Tail(args))

parseCreateFlags(args) == ParseFrom(NoFlags, args)

\* the ResourceConfig handleCreate builds
ResourceConfigOf(resource, args) ==
    LET flags == parseCreateFlags(args)
        resourceSegments == FilterBoolean(SplitOn(resource, {"/"}))
    IN [apiDir |-> DEFAULT_API_DIR,
        hooksDir |-> DEFAULT_HOOKS_DIR,
        force |-> (flags.force # None /\ flags.force[1]),
        route |-> IF flags.route # None THEN flags.route[1]
                  ELSE <<"/">> \o JoinWith(resourceSegments, "/"),
        resourceSegments |-> resourceSegments]

\* path.join of directory names and a file name, none of them "." or ".."
PathJoin(parts) == Str(JoinWith(parts, "/"))

RECURSIVE Ups(_)
Ups(n) == IF n = 0 THEN <<>> ELSE << <<"..">> >> \o Ups(n - 1)

\* buildImportPath(hooksResourceDir, apiResourceDir) for two different one-segment
\* base directories: up out of the hooks directory, then down into the api one
buildImportPath(rc) ==
    PathJoin(Ups(1 + Len(rc.resourceSegments))
             \o <<rc.apiDir>> \o rc.resourceSegments)

LastSegment(rc) == rc.resourceSegments[Len(rc.resourceSegments)]

ResolvedRoute(rc) == IF StartsWith(rc.route, "/") THEN rc.route ELSE <<"/">> \o rc.route

apiFilePath(rc) == PathJoin(<<rc.apiDir>> \o rc.resourceSegments \o << <<"index.ts">> >>)

hooksFilePath(rc) ==
    PathJoin(<<rc.hooksDir>> \o rc.resourceSegments
             \o << <<"use">> \o toPascalCase(LastSegment(rc)) \o <<".ts">> >>)

hooksIndexPath(rc) == PathJoin(<<rc.hooksDir>> \o rc.resourceSegments \o << <<"index.ts">> >>)

\* what a file holds: which template, and what it was filled with
Content(kind, plural, singular, route, key, import) ==
    [kind |-> kind, pluralPascal |-> plural, singularPascal |-> singular,
     route |-> route, resourceKey |-> key, apiImportPath |-> import]

\* a file somebody wrote before
PREVIOUS == Content("previous", "", "", "", "", "")

buildApiTemplate(rc) ==
    Content("api", Str(toPascalCase(LastSegment(rc))),
            Str(toPascalCase(toSingular(LastSegment(rc)))),
            Str(ResolvedRoute(rc)), "", "")

buildHooksTemplate(rc) ==
    Content("hooks", Str(toPascalCase(LastSegment(rc))),
            Str(toPascalCase(toSingular(LastSegment(rc)))),
            "", Str(JoinWith(rc.resourceSegments, "/")), buildImportPath(rc))

\* `export * from "./use${pascalPlural}";\n`
buildHooksIndex(rc) ==
    Content("hooksIndex", Str(toPascalCase(LastSegment(rc))), "", "", "", "")

\* fs.writeFile(filePath, content)
WriteFile(fs, filePath, content) ==
    [f \in (DOMAIN fs) \cup {filePath} |-> IF f = filePath THEN content ELSE fs[f]]

\* a writeFileIfAllowed that never looks at what exists
writeFileAlways(fs, filePath, content, force) == WriteFile(fs, filePath, content)

\* the file system after writeFileIfAllowed(filePath, content, force)
writeFileIfAllowed(fs, filePath, content, force) ==
    IF filePath \in DOMAIN fs /\ ~force
    THEN fs
    ELSE WriteFile(fs, filePath, content)

RES_USERS == <<"u", "s", "e", "r", "s">>

RES_NESTED == <<"a", "d", "m", "i", "n", "/", "u", "s", "e", "r", "-", "P", "O", "S", "T", "S">>

RES_CATEGORIES == <<"/", "c", "a", "t", "e", "g", "o", "r", "i", "e", "s", "/">>

Resources == {RES_USERS, RES_NESTED, RES_CATEGORIES}

CliArgs ==
    { <<>>, <<FLAG_FORCE>>, <<FLAG_FORCE_TRUE>>, <<FLAG_FORCE_FALSE>>,
      <<FLAG_ROUTE>>, <<STRAY_ARG, FLAG_UNKNOWN, FLAG_FORCE>> }

\* the files the commands of the model write
TargetFiles ==
    UNION { {apiFilePath(ResourceConfigOf(r, <<>>)),
             hooksFilePath(ResourceConfigOf(r, <<>>)),
             hooksIndexPath(ResourceConfigOf(r, <<>>))} : r \in Resources }

NoConfig ==
    [apiDir |-> <<>>, hooksDir |-> <<>>, force |-> FALSE, route |-> <<>>,
     resourceSegments |-> <<>>]

\* where runCli is: idle, writeApi, writeHooks, writeHooksIndex, done; and its
\* arguments and the ResourceConfig
NoCli == [pc |-> "idle", resource |-> <<>>, args |-> <<>>, rc |-> NoConfig]

-----------------------------------------------------------------------------
(* The request pipeline *)

NoOptions ==
    [path |-> <<>>, method |-> "", errorLocale |-> None, searchParams |-> None,
     headers |-> None, body |-> NoBody, signal |-> None]

NoOutcome == [state |-> "none", value |-> Undefined, error |-> NoError]

Pending == [state |-> "pending", value |-> Undefined, error |-> NoError]

Resolved(v) == [state |-> "resolved", value |-> v, error |-> NoError]

Rejected(e) == [state |-> "rejected", value |-> Undefined, error |-> e]

\* no request() call has been made
RequestIdle ==
    /\ pc = "idle"
    /\ options = NoOptions
    /\ fetchCalls = 0
    /\ transport = "none"
    /\ timer = "unset"
    /\ aborted = FALSE
    /\ wt = "none"
    /\ response = None
    /\ bodyUsed = FALSE
    /\ outcome = NoOutcome
    /\ logs = <<>>
    /\ outbound = None
    /\ callerAborted = FALSE

\* no second request has been made
NoPeer ==
    [pc |-> "idle", transport |-> "none", timer |-> "unset", aborted |-> FALSE,
     wt |-> "none", outcome |-> NoOutcome]

PeerIdle == peer = NoPeer

\* an empty Storage
StorageIdle ==
    /\ storage = [k \in StorageKeys |-> None]
    /\ now = 1
    /\ written = [k \in StorageKeys |-> None]
    /\ result = None

\* runCli has not been called, in an empty directory
CliIdle ==
    /\ files = <<>>
    /\ filesBefore = <<>>
    /\ cli = NoCli

\* no Logger has been created
LoggerIdle ==
    /\ loggers = <<>>
    /\ logTransports = <<>>
    /\ lastLog = None

OthersIdle == PeerIdle /\ StorageIdle /\ CliIdle /\ LoggerIdle

Init ==
    /\ config \in Configs
    /\ RequestIdle
    /\ OthersIdle

\* this.logger?.debug(...) / this.logger?.error(...)
Logged(level, message) ==
    IF config.logger THEN Append(logs, [level |-> level, message |-> message]) ELSE logs

\* a promise that lets a later settlement replace an earlier one
SettleAgain(promise, how) == how

\* resolve / reject of a promise: only the first settlement counts
SettleOnce(promise, how) == IF promise = "pending" THEN how ELSE promise

\* a clearTimeout that leaves the timer as it is
KeepTimeout(t) == t

\* clearTimeout(timer)
ClearTimeout(t) == IF t = "pending" THEN "cleared" ELSE t

\* what a transport of the logger throws when it fails
LogFailure == OtherError("Error", "log transport failed")

\* Logger.log calls transport(entry) before Promise.resolve(...).catch(...) wraps its
\* result: a transport that returns a rejected promise is caught there, one that
\* throws is not, and its error leaves debug() or error() into request()
LogThrows == config.logger /\ config.logTransport = "throws"

\* a catch block that wraps what it caught in an ApiError
CatchAndWrap(err) ==
    /\ pc' = "done"
    /\ logs' = Logged("error", "Request failed")
    /\ outcome' = Rejected(ApiError(0, <<>>, <<err.name>>, Null, FALSE))

\* the catch block of request()
Catch(err) ==
    /\ pc' = "done"
    /\ IF err.name = "AbortError"
       THEN /\ outcome' = Rejected(TimeoutError)
            /\ logs' = logs
       ELSE /\ logs' = Logged("error", "Request failed")
            /\ outcome' = Rejected(IF LogThrows THEN LogFailure ELSE err)

\* a dispatch that invokes the transport a second time
DispatchTwice ==
    /\ logs' = Logged("debug", "HTTP Request")
    /\ IF LogThrows
       THEN /\ pc' = "done"
            /\ outcome' = Rejected(LogFailure)
            /\ UNCHANGED <<fetchCalls, transport, timer, wt>>
       ELSE /\ fetchCalls' = fetchCalls + 2
            /\ transport' = "pending"
            /\ timer' = "pending"
            /\ wt' = "pending"
            /\ pc' = "waiting"
            /\ outcome' = Pending

\* logger.debug("HTTP Request"), then withTimeout(this.fetchImpl(url, init), timeout)
Dispatch ==
    /\ logs' = Logged("debug", "HTTP Request")
    /\ IF LogThrows
       THEN /\ pc' = "done"
            /\ outcome' = Rejected(LogFailure)
            /\ UNCHANGED <<fetchCalls, transport, timer, wt>>
       ELSE /\ fetchCalls' = fetchCalls + 1
            /\ transport' = "pending"
            /\ timer' = "pending"
            /\ wt' = "pending"
            /\ pc' = "waiting"
            /\ outcome' = Pending

\* what request() does with finalResponse before it reads any body
Interpret(res) ==
    /\ response' = Some(res)
    /\ IF ~Ok(res)
       THEN /\ pc' = "toApiError"
            /\ UNCHANGED <<outcome, logs>>
       ELSE IF res.status = 204 \/ ~Truthy(HeadersGet(res.headers, "content-length"))
       THEN /\ pc' = "done"
            /\ outcome' = Resolved(Undefined)
            /\ logs' = logs
       ELSE /\ pc' = "readBody"
            /\ UNCHANGED <<outcome, logs>>

\* mergeHeaders(overrides): every entry of the overrides is set on the defaults
mergeHeaders(overrides) ==
    LET headers == NewHeaders(config.headers)
    IN IF overrides = None THEN headers ELSE Spread(headers, NewHeaders(overrides[1]))

\* a prepareBody that hands every body on as it is
prepareBodyAsIs(body) == body

\* prepareBody(body)
prepareBody(body) ==
    IF Falsy(body) THEN NoBody
    ELSE IF body.kind \in {"FormData", "string", "Blob", "ArrayBuffer"} THEN body
    ELSE StringBody(JSONStringify(body))

\* a buildUrl that keeps the leading slash of the path
buildUrlKeepSlash(path, params) ==
    LET url == NewURL(path, Some(config.baseUrl))
        queryString == toQueryString(params)
    IN Href(IF params # None /\ queryString # <<>>
            THEN SetSearch(url, IF Search(url) # <<>>
                                THEN Search(url) \o <<"&">> \o queryString
                                ELSE <<"?">> \o queryString)
            ELSE url)

\* buildUrl(path, params)
buildUrl(path, params) ==
    LET normalized == IF StartsWith(path, "/") THEN Tail(path) ELSE path
        url == NewURL(normalized, Some(config.baseUrl))
        queryString == toQueryString(params)
    IN Href(IF params # None /\ queryString # <<>>
            THEN SetSearch(url, IF Search(url) # <<>>
                                THEN Search(url) \o <<"&">> \o queryString
                                ELSE <<"?">> \o queryString)
            ELSE url)

\* the init object of request(): the caller's remaining options, then headers, body
\* and the signal of the call's own AbortController
RequestInitOf(opts) ==
    LET headers == mergeHeaders(opts.headers)
        preparedBody == prepareBody(opts.body)
        rest == [method |-> opts.method, signal |-> opts.signal]
    IN Spread(rest,
              [headers |-> IF ~Falsy(preparedBody) /\ opts.body.kind # "FormData"
                           THEN HeadersSet(headers, H_CONTENT_TYPE, CT_JSON)
                           ELSE headers,
               body |-> preparedBody,
               signal |-> Some("controller")])

\* AbortSignal.aborted of a signal handed to the transport
SignalAborted(signal) ==
    IF signal = Some("caller") THEN callerAborted ELSE signal # None /\ aborted

\* request(path, options) up to its first await
Request(path, opts) ==
    /\ pc = "idle"
    /\ options' = [opts EXCEPT !.path = path]
    /\ outbound' = Some([url |-> buildUrl(path, opts.searchParams),
                         init |-> RequestInitOf(opts)])
    /\ callerAborted' = FALSE
    /\ aborted' = FALSE
    /\ IF config.requestInterceptor
       THEN /\ pc' = "reqInterceptor"
            /\ outcome' = Pending
            /\ UNCHANGED <<logs, fetchCalls, transport, timer, wt>>
       ELSE Dispatch
    /\ UNCHANGED <<config, response, bodyUsed>>
    /\ UNCHANGED otherVars

Get(path, opts) == Request(path, [opts EXCEPT !.method = "GET"])

Post(path, opts) == Request(path, [opts EXCEPT !.method = "POST"])

Delete(path, opts) == Request(path, [opts EXCEPT !.method = "DELETE"])

\* the caller aborts the controller whose signal it passed in options, while the
\* transport call is in flight
CallerAbort ==
    /\ transport = "pending"
    /\ options.signal # None
    /\ ~callerAborted
    /\ callerAborted' = TRUE
    /\ UNCHANGED <<config, pc, options, fetchCalls, transport, timer, aborted, wt,
                   response, bodyUsed, outcome, logs, outbound>>
    /\ UNCHANGED otherVars

\* the awaited request interceptor settles
InterceptRequest ==
    /\ pc = "reqInterceptor"
    /\ \/ Dispatch
       \/ /\ pc' = "done"
          /\ outcome' = Rejected(OtherError("Error", "request interceptor failed"))
          /\ UNCHANGED <<logs, fetchCalls, transport, timer, wt>>
    /\ UNCHANGED <<config, options, aborted, response, bodyUsed, outbound, callerAborted>>
    /\ UNCHANGED otherVars

\* the transport promise fulfils: the then handler of withTimeout runs, and request()
\* resumes if that settled the withTimeout promise
TransportResolve(res) ==
    /\ transport = "pending"
    /\ transport' = "fulfilled"
    /\ timer' = ClearTimeout(timer)
    /\ wt' = SettleOnce(wt, "resolved")
    /\ IF wt' # wt
       THEN IF config.responseInterceptor
            THEN /\ pc' = "respInterceptor"
                 /\ response' = Some(res)
                 /\ UNCHANGED <<outcome, logs>>
            ELSE Interpret(res)
       ELSE UNCHANGED <<pc, response, outcome, logs>>
    /\ UNCHANGED <<config, options, fetchCalls, aborted, bodyUsed,
                   outbound, callerAborted>>
    /\ UNCHANGED otherVars

\* the transport promise rejects: the catch handler of withTimeout runs, and request()
\* resumes if that settled the withTimeout promise
TransportReject(err) ==
    /\ transport = "pending"
    /\ transport' = "rejected"
    /\ timer' = ClearTimeout(timer)
    /\ wt' = SettleOnce(wt, "rejected")
    /\ IF wt' # wt
       THEN Catch(err)
       ELSE UNCHANGED <<pc, outcome, logs>>
    /\ UNCHANGED <<config, options, fetchCalls, aborted, response, bodyUsed,
                   outbound, callerAborted>>
    /\ UNCHANGED otherVars

\* the timer of withTimeout fires: its callback rejects the withTimeout promise
\* (controller.abort() is called nowhere, so the signal stays as it is)
TimerFire ==
    /\ timer = "pending"
    /\ timer' = "fired"
    /\ wt' = SettleOnce(wt, "rejected")
    /\ IF wt' # wt
       THEN Catch(TimeoutError)
       ELSE UNCHANGED <<pc, outcome, logs>>
    /\ UNCHANGED <<config, options, fetchCalls, transport, aborted, response, bodyUsed,
                   outbound, callerAborted>>
    /\ UNCHANGED otherVars

\* the awaited response interceptor settles
InterceptResponse ==
    /\ pc = "respInterceptor"
    /\ \/ Interpret(response[1])
       \/ \E sub \in SubstituteResponses : Interpret(sub)
       \/ /\ Catch(OtherError("Error", "response interceptor failed"))
          /\ response' = None
    /\ UNCHANGED <<config, options, fetchCalls, transport, timer, aborted, wt, bodyUsed,
                   outbound, callerAborted>>
    /\ UNCHANGED otherVars

\* the awaited finalResponse.json() or finalResponse.text() of a 2xx response settles
ReadBody ==
    /\ pc = "readBody"
    /\ bodyUsed' = TRUE
    /\ LET contentType == OrEmpty(HeadersGet(response[1].headers, "content-type"))
           read == IF TestJsonIgnoreCase(contentType)
                   THEN ReadJson(response[1]) ELSE ReadText(response[1])
       IN IF read.ok
          THEN IF LogThrows
               THEN \* debug("HTTP Response") throws inside the try block, and
                    \* error("Request failed") throws again inside the catch block
                    /\ logs' = logs \o <<[level |-> "debug", message |-> "HTTP Response"],
                                         [level |-> "error", message |-> "Request failed"]>>
                    /\ outcome' = Rejected(LogFailure)
                    /\ pc' = "done"
               ELSE /\ logs' = Logged("debug", "HTTP Response")
                    /\ outcome' = Resolved(read.value)
                    /\ pc' = "done"
          ELSE Catch(read.error)
    /\ UNCHANGED <<config, options, fetchCalls, transport, timer, aborted, wt, response,
                   outbound, callerAborted>>
    /\ UNCHANGED otherVars

\* a toApiError without its try/catch: a failed body read escapes it
ThrowApiErrorUnguarded ==
    /\ pc = "toApiError"
    /\ bodyUsed' = TRUE
    /\ IF ErrorBodyRead(response[1]).ok
       THEN Catch(toApiError(response[1], options.errorLocale))
       ELSE Catch(ErrorBodyRead(response[1]).error)
    /\ UNCHANGED <<config, options, fetchCalls, transport, timer, aborted, wt, response,
                   outbound, callerAborted>>
    /\ UNCHANGED otherVars

\* the awaited toApiError(finalResponse, errorLocale) settles and its result is thrown
ThrowApiError ==
    /\ pc = "toApiError"
    /\ bodyUsed' = TRUE
    /\ Catch(toApiError(response[1], options.errorLocale))
    /\ UNCHANGED <<config, options, fetchCalls, transport, timer, aborted, wt, response,
                   outbound, callerAborted>>
    /\ UNCHANGED otherVars

Next ==
    \/ \E path \in Paths, loc \in ErrorLocales :
          Get(path, [NoOptions EXCEPT !.errorLocale = loc])
    \/ \E path \in Paths : Post(path, NoOptions)
    \/ InterceptRequest
    \/ \E res \in Responses : TransportResolve(res)
    \/ \E err \in TransportErrors : TransportReject(err)
    \/ TimerFire
    \/ InterceptResponse
    \/ ReadBody
    \/ ThrowApiError

Spec == Init /\ [][Next]_vars

\* The runtime fires a pending timer; nothing makes the transport, an interceptor or a
\* body reader settle.
FairSpec == Spec /\ WF_vars(TimerFire)

\* Clients whose logger has a transport that works, that returns a rejected promise,
\* or that throws
LogConfigs ==
    [baseUrl : {ConstructBaseUrl(BASE_ROOT)},
     headers : {<<>>},
     locale : {"es"},
     errorMessages : {<<>>},
     requestInterceptor : BOOLEAN,
     responseInterceptor : BOOLEAN,
     logger : BOOLEAN,
     logTransport : {"ok", "rejects", "throws"}]

LogInit ==
    /\ config \in LogConfigs
    /\ RequestIdle
    /\ OthersIdle

\* the request pipeline with loggers whose transport may fail
LogSpec == LogInit /\ [][Next]_vars

\* A client without interceptors and logger, its base address and default headers
\* drawn from the sets above
BuildConfigs ==
    [baseUrl : {ConstructBaseUrl(b) : b \in BaseUrls},
     headers : DefaultHeaderSets,
     locale : {"es"},
     errorMessages : {<<>>},
     requestInterceptor : {FALSE},
     responseInterceptor : {FALSE},
     logger : {FALSE},
     logTransport : {"ok"}]

\* options that vary what the URL is built from
UrlOptions ==
    { [NoOptions EXCEPT !.searchParams = sp, !.signal = sig] :
        sp \in SearchParamSets, sig \in Signals }

\* options that vary what the init object is built from
InitOptions ==
    { [NoOptions EXCEPT !.headers = h, !.body = b] :
        h \in OverrideHeaderSets, b \in RequestBodies }

BuildInit ==
    /\ config \in BuildConfigs
    /\ RequestIdle
    /\ OthersIdle

BuildNext ==
    \/ \E path \in RequestPaths, opts \in UrlOptions : Get(path, opts)
    \/ \E path \in Paths, opts \in InitOptions : Post(path, opts)
    \/ \E path \in Paths, opts \in InitOptions : Delete(path, opts)
    \/ CallerAbort
    \/ TimerFire

\* request building: every call is dispatched and ends by its timeout
BuildSpec == BuildInit /\ [][BuildNext]_vars

-----------------------------------------------------------------------------
(* Two concurrent requests on one client                                   *)
(*                                                                         *)
(* Every request() call keeps its state in the locals of its own           *)
(* invocation: its AbortController, the timer and the promise of its       *)
(* withTimeout call.  The second call is followed through dispatch and the *)
(* timeout race only; the client has no interceptors and no logger.        *)

ConcConfigs ==
    [baseUrl : {ConstructBaseUrl(BASE_ROOT)},
     headers : {<<>>},
     locale : {"es", "en"},
     errorMessages : {<<>>},
     requestInterceptor : {FALSE},
     responseInterceptor : {FALSE},
     logger : {FALSE},
     logTransport : {"ok"}]

\* the second call: request() up to its await of withTimeout
PeerRequest ==
    /\ peer.pc = "idle"
    /\ peer' = [pc |-> "waiting", transport |-> "pending", timer |-> "pending",
                aborted |-> FALSE, wt |-> "pending", outcome |-> Pending]
    /\ UNCHANGED <<requestVars, storageVars, cliVars, loggerVars>>

\* the transport promise of the second call fulfils (with an empty 2xx response)
PeerTransportResolve ==
    /\ peer.transport = "pending"
    /\ LET settled == SettleOnce(peer.wt, "resolved")
       IN peer' = [peer EXCEPT !.transport = "fulfilled",
                               !.timer = ClearTimeout(@),
                               !.wt = settled,
                               !.pc = IF settled # peer.wt THEN "done" ELSE @,
                               !.outcome = IF settled # peer.wt
                                           THEN Resolved(Undefined) ELSE @]
    /\ UNCHANGED <<requestVars, storageVars, cliVars, loggerVars>>

\* the transport promise of the second call rejects
PeerTransportReject(err) ==
    /\ peer.transport = "pending"
    /\ LET settled == SettleOnce(peer.wt, "rejected")
       IN peer' = [peer EXCEPT !.transport = "rejected",
                               !.timer = ClearTimeout(@),
                               !.wt = settled,
                               !.pc = IF settled # peer.wt THEN "done" ELSE @,
                               !.outcome = IF settled # peer.wt
                                           THEN Rejected(IF err.name = "AbortError"
                                                         THEN TimeoutError ELSE err)
                                           ELSE @]
    /\ UNCHANGED <<requestVars, storageVars, cliVars, loggerVars>>

\* a client whose calls share one timer: the timer of the second call is also the
\* timer of the first
PeerTimerFireShared ==
    /\ peer.timer = "pending"
    /\ LET settled == SettleOnce(peer.wt, "rejected")
       IN peer' = [peer EXCEPT !.timer = "fired",
                               !.wt = settled,
                               !.pc = IF settled # peer.wt THEN "done" ELSE @,
                               !.outcome = IF settled # peer.wt
                                           THEN Rejected(TimeoutError) ELSE @]
    /\ timer' = IF timer = "pending" THEN "fired" ELSE timer
    /\ UNCHANGED <<config, pc, options, fetchCalls, transport, aborted, wt,
                   response, bodyUsed, outcome, logs, outbound, callerAborted>>
    /\ UNCHANGED <<storageVars, cliVars, loggerVars>>

\* the timer of the second call fires
PeerTimerFire ==
    /\ peer.timer = "pending"
    /\ LET settled == SettleOnce(peer.wt, "rejected")
       IN peer' = [peer EXCEPT !.timer = "fired",
                               !.wt = settled,
                               !.pc = IF settled # peer.wt THEN "done" ELSE @,
                               !.outcome = IF settled # peer.wt
                                           THEN Rejected(TimeoutError) ELSE @]
    /\ timer' = timer
    /\ UNCHANGED <<config, pc, options, fetchCalls, transport, aborted, wt,
                   response, bodyUsed, outcome, logs, outbound, callerAborted>>
    /\ UNCHANGED <<storageVars, cliVars, loggerVars>>

ConcInit ==
    /\ config \in ConcConfigs
    /\ RequestIdle
    /\ OthersIdle

ConcNext ==
    \/ \E path \in Paths, loc \in ErrorLocales :
          Get(path, [NoOptions EXCEPT !.errorLocale = loc])
    \/ \E res \in Responses : TransportResolve(res)
    \/ \E err \in TransportErrors : TransportReject(err)
    \/ TimerFire
    \/ ReadBody
    \/ ThrowApiError
    \/ PeerRequest
    \/ PeerTransportResolve
    \/ \E err \in TransportErrors : PeerTransportReject(err)
    \/ PeerTimerFire

\* two request() calls on one client, their events interleaved in every order
ConcSpec == ConcInit /\ [][ConcNext]_vars

-----------------------------------------------------------------------------
(* StorageManager: set, get, remove, clear, and the passing of time         *)
(*                                                                         *)
(* written remembers, for every key, the last set that no remove or clear  *)
(* has undone: its value, the time of the call and its ttlMs.              *)

\* set(key, value, ttlMs)
Set(key, value, ttlMs) ==
    /\ storage' = [storage EXCEPT ![key] =
                      Some(StringifyData([value |-> value,
                                          expires |-> ExpiresOf(ttlMs, now)]))]
    /\ written' = [written EXCEPT ![key] =
                      Some([value |-> value, at |-> now, ttl |-> ttlMs])]
    /\ result' = None
    /\ UNCHANGED <<now, requestVars, peerVars, cliVars, loggerVars>>

\* get(key)
StorageGet(key) ==
    /\ LET raw == storage[key]
           data == IF raw = None THEN None ELSE ParseData(raw[1])
       IN IF raw = None
          THEN \* if (!raw) return null
               /\ result' = GetResult(key, None)
               /\ storage' = storage
          ELSE IF data = None
          THEN \* JSON.parse throws: catch { return null }
               /\ result' = GetResult(key, None)
               /\ storage' = storage
          ELSE IF data[1].expires # None /\ now > data[1].expires[1]
          THEN /\ storage' = [storage EXCEPT ![key] = None]
               /\ result' = GetResult(key, None)
          ELSE /\ result' = GetResult(key, Some(data[1].value))
               /\ storage' = storage
    /\ UNCHANGED <<now, written, requestVars, peerVars, cliVars, loggerVars>>

\* remove(key)
Remove(key) ==
    /\ storage' = [storage EXCEPT ![key] = None]
    /\ written' = [written EXCEPT ![key] = None]
    /\ result' = None
    /\ UNCHANGED <<now, requestVars, peerVars, cliVars, loggerVars>>

\* clear()
Clear ==
    /\ storage' = [k \in StorageKeys |-> None]
    /\ written' = [k \in StorageKeys |-> None]
    /\ result' = None
    /\ UNCHANGED <<now, requestVars, peerVars, cliVars, loggerVars>>

\* a millisecond passes
Tick ==
    /\ now < MaxNow
    /\ now' = now + 1
    /\ result' = None
    /\ UNCHANGED <<storage, written, requestVars, peerVars, cliVars, loggerVars>>

\* a StorageManager over a Storage that may already hold an entry that is not JSON
StorageInit ==
    /\ config \in {c \in ConcConfigs : c.locale = "es"}
    /\ RequestIdle
    /\ PeerIdle
    /\ CliIdle
    /\ LoggerIdle
    /\ storage \in [StorageKeys -> {None, Some(CORRUPT)}]
    /\ now = 1
    /\ written = [k \in StorageKeys |-> None]
    /\ result = None

StorageNext ==
    \/ \E key \in StorageKeys, value \in StorageValues, ttlMs \in Ttls :
          Set(key, value, ttlMs)
    \/ \E key \in StorageKeys : StorageGet(key)
    \/ \E key \in StorageKeys : Remove(key)
    \/ Clear
    \/ Tick

StorageSpec == StorageInit /\ [][StorageNext]_vars

-----------------------------------------------------------------------------
(* runCli: one run of the create command in a directory that may already   *)
(* hold some of the files                                                  *)

\* runCli(["create", resource, ...args]) up to the first write; filesBefore keeps
\* the file system as the command found it
RunCli(resource, args) ==
    /\ cli.pc = "idle"
    /\ cli' = [pc |-> "writeApi", resource |-> resource, args |-> args,
               rc |-> ResourceConfigOf(resource, args)]
    /\ filesBefore' = files
    /\ UNCHANGED <<files, requestVars, peerVars, storageVars, loggerVars>>

\* await writeFileIfAllowed(apiFilePath, buildApiTemplate(...), force)
WriteApi ==
    /\ cli.pc = "writeApi"
    /\ files' = writeFileIfAllowed(files, apiFilePath(cli.rc),
                                   buildApiTemplate(cli.rc), cli.rc.force)
    /\ cli' = [cli EXCEPT !.pc = "writeHooks"]
    /\ UNCHANGED <<filesBefore, requestVars, peerVars, storageVars, loggerVars>>

\* await writeFileIfAllowed(hooksFilePath, buildHooksTemplate(...), force)
WriteHooks ==
    /\ cli.pc = "writeHooks"
    /\ files' = writeFileIfAllowed(files, hooksFilePath(cli.rc),
                                   buildHooksTemplate(cli.rc), cli.rc.force)
    /\ cli' = [cli EXCEPT !.pc = "writeHooksIndex"]
    /\ UNCHANGED <<filesBefore, requestVars, peerVars, storageVars, loggerVars>>

\* await writeFileIfAllowed(hooksIndexPath, `export * from ...`, force)
WriteHooksIndex ==
    /\ cli.pc = "writeHooksIndex"
    /\ files' = writeFileIfAllowed(files, hooksIndexPath(cli.rc),
                                   buildHooksIndex(cli.rc), cli.rc.force)
    /\ cli' = [cli EXCEPT !.pc = "done"]
    /\ UNCHANGED <<filesBefore, requestVars, peerVars, storageVars, loggerVars>>

CliInit ==
    /\ config \in {c \in ConcConfigs : c.locale = "es"}
    /\ RequestIdle
    /\ PeerIdle
    /\ StorageIdle
    /\ LoggerIdle
    /\ \E existing \in SUBSET TargetFiles : files = [f \in existing |-> PREVIOUS]
    /\ filesBefore = <<>>
    /\ cli = NoCli

CliNext ==
    \/ \E resource \in Resources, args \in CliArgs : RunCli(resource, args)
    \/ WriteApi
    \/ WriteHooks
    \/ WriteHooksIndex

CliSpec == CliInit /\ [][CliNext]_vars

-----------------------------------------------------------------------------
(* Logger: createLogger, setLevel, child and the log methods               *)
(*                                                                         *)
(* loggers lists the Logger objects in the order they were created, the    *)
(* first by createLogger and the others by child(); all of them hold the   *)
(* same transports array, logTransports.  A transport is given by what it  *)
(* does with an entry: "ok" returns, "rejects" returns a promise that      *)
(* rejects, "throws" throws.  lastLog is the last log call: the logger,    *)
(* the level of the call, and for every transport whether it was called    *)
(* with the entry.                                                         *)

MaxLoggers == 3

LogLevels == {"silent", "error", "warn", "info", "debug"}

\* the levels of the methods error, warn, info and debug
MethodLevels == {"error", "warn", "info", "debug"}

LEVEL_PRIORITY ==
    [l \in LogLevels |->
        CASE l = "silent" -> 0 [] l = "error" -> 1 [] l = "warn" -> 2
          [] l = "info" -> 3 [] l = "debug" -> 4]

\* the transports option of createLogger
TransportLists ==
    { <<>>, <<"ok">>, <<"ok", "ok">>, <<"rejects", "ok">>, <<"throws", "ok">> }

\* the namespace option: undefined, "" or a name
RootNamespaces == {None, Some(""), Some("app")}

ChildNamespaces == {"api"}

\* transports?.length && transports.length > 0 ? transports : [console transport]
TransportsOrConsole(transports) == IF Len(transports) > 0 THEN transports ELSE <<"ok">>

\* Logger.shouldLog
shouldLog(current, level) ==
    IF current = "silent" THEN FALSE
    ELSE LEVEL_PRIORITY[level] <= LEVEL_PRIORITY[current]

\* the for loop of Logger.log: transport(entry) is called for one transport after
\* the other; a call that throws ends the loop and the log call
Called(transports) ==
    [t \in 1..Len(transports) |-> \A u \in 1..(t - 1) : transports[u] # "throws"]

NotCalled(transports) == [t \in 1..Len(transports) |-> FALSE]

\* createLogger(options)
CreateLogger(namespace, level, transports) ==
    /\ loggers = <<>>
    /\ loggers' = <<[namespace |-> namespace, level |-> level]>>
    /\ logTransports' = TransportsOrConsole(transports)
    /\ lastLog' = None
    /\ UNCHANGED <<requestVars, peerVars, storageVars, cliVars>>

\* loggers[i].setLevel(level)
SetLevel(i, level) ==
    /\ i \in 1..Len(loggers)
    /\ loggers' = [loggers EXCEPT ![i].level = level]
    /\ lastLog' = None
    /\ UNCHANGED <<logTransports, requestVars, peerVars, storageVars, cliVars>>

\* loggers[i].child(namespace)
Child(i, namespace) ==
    /\ i \in 1..Len(loggers)
    /\ Len(loggers) < MaxLoggers
    /\ LET parent == loggers[i]
           childNamespace == IF parent.namespace # None /\ parent.namespace[1] # ""
                             THEN parent.namespace[1] \o ":" \o namespace
                             ELSE namespace
       IN loggers' = Append(loggers, [namespace |-> Some(childNamespace),
                                      level |-> parent.level])
    /\ lastLog' = None
    /\ UNCHANGED <<logTransports, requestVars, peerVars, storageVars, cliVars>>

\* loggers[i].error / warn / info / debug (message)
Log(i, level) ==
    /\ i \in 1..Len(loggers)
    /\ lastLog' = Some([logger |-> i, level |-> level,
                        namespace |-> loggers[i].namespace,
                        called |-> IF shouldLog(loggers[i].level, level)
                                   THEN Called(logTransports)
                                   ELSE NotCalled(logTransports)])
    /\ UNCHANGED <<loggers, logTransports, requestVars, peerVars, storageVars, cliVars>>

LoggerInit ==
    /\ config \in {c \in ConcConfigs : c.locale = "es"}
    /\ RequestIdle
    /\ PeerIdle
    /\ StorageIdle
    /\ CliIdle
    /\ LoggerIdle

LoggerNext ==
    \/ \E namespace \in RootNamespaces, level \in LogLevels, transports \in TransportLists :
          CreateLogger(namespace, level, transports)
    \/ \E i \in 1..MaxLoggers, level \in LogLevels : SetLevel(i, level)
    \/ \E i \in 1..MaxLoggers, namespace \in ChildNamespaces : Child(i, namespace)
    \/ \E i \in 1..MaxLoggers, level \in MethodLevels : Log(i, level)

LoggerSpec == LoggerInit /\ [][LoggerNext]_vars

-----------------------------------------------------------------------------
(* Properties *)

Settled == outcome.state \in {"resolved", "rejected"}

\* the transport promise has settled or the timeout timer has fired
RaceDecided == transport \in {"fulfilled", "rejected"} \/ timer = "fired"

\* once request()'s promise has settled, no later event changes it
OutcomeStable == [][Settled => outcome' = outcome]_vars

\* the request is awaiting a response interceptor or a body reader
AwaitingCollaborator == pc \in {"respInterceptor", "readBody", "toApiError"}

\* C1 as stated: once the transport has settled or the timer has fired, request()'s
\* promise settles, exactly once, and a later settlement or timer does not change it.
C1_OutcomeOnceRaceDecided == OutcomeStable /\ (RaceDecided ~> Settled)

\* C1, amended: request()'s promise settles at most once and no later event changes
\* it; once the transport has settled or the timer has fired, it has settled unless the
\* request is still awaiting the response interceptor or a body reader.
C1_ExactlyOneOutcome ==
    /\ OutcomeStable
    /\ [](RaceDecided => (Settled \/ AwaitingCollaborator))

\* C1 witness: the transport settled after the timer had fired and decided the outcome
C1_Witness ==
    /\ timer = "fired"
    /\ transport = "fulfilled"
    /\ outcome = Rejected(TimeoutError)

\* the finalResponse request() interpreted, when the call is over
HasFinalResponse == pc = "done" /\ response # None

\* C2: when the timer fires before the transport settles, request() rejects with the
\* ApiError of status 408, isTimeout true and a null body, and the signal handed to
\* the transport is aborted.
C2_TimeoutAbortsTransport ==
    timer = "fired" =>
        /\ outcome.state = "rejected"
        /\ outcome.error.name = "ApiError"
        /\ outcome.error.status = 408
        /\ outcome.error.isTimeout
        /\ outcome.error.body = Null
        /\ aborted

SuccessScenario ==
    /\ config = [baseUrl |-> ConstructBaseUrl(BASE_ROOT), headers |-> <<>>,
                 locale |-> "es", errorMessages |-> <<>>,
                 requestInterceptor |-> FALSE, responseInterceptor |-> FALSE,
                 logger |-> FALSE, logTransport |-> "ok"]
    /\ options = [NoOptions EXCEPT !.path = <<"/", "users">>, !.method = "GET"]
    /\ HasFinalResponse
    /\ response[1].status = 200
    /\ response[1].headers = ("content-type" :> CT_JSON)
    /\ response[1].body = [text |-> BODY_USERS, broken |-> FALSE]

\* C4: in the success scenario (status 200, a content-type of application/json and no
\* other header, the JSON body [{"id":"1"}]) get("/users") resolves to the parsed body.
C4_SuccessScenario ==
    SuccessScenario => outcome = Resolved(JsonVal(<<[id |-> "1"]>>))

\* the content-length header is absent, or is zero
NoContentLength(res) ==
    \/ "content-length" \notin DOMAIN res.headers
    \/ res.headers["content-length"] = <<"0">>

\* C5: a 2xx response of status 204, or without a content-length header, or with a
\* content-length of zero, resolves to undefined and its body is not read.
C5_EmptyResponses ==
    (/\ HasFinalResponse
     /\ Ok(response[1])
     /\ (response[1].status = 204 \/ NoContentLength(response[1])))
    => (outcome = Resolved(Undefined) /\ ~bodyUsed)

\* the Content-Type of a response, "" when there is none
ContentTypeOf(res) ==
    IF "content-type" \in DOMAIN res.headers THEN res.headers["content-type"] ELSE <<>>

\* the text holds the letters j, s, o, n in a row, in any letter case
HasJsonAnyCase(s) ==
    \E i \in 1..(Len(s) - 3) :
        /\ s[i] \in {"j", "J"}
        /\ s[i + 1] \in {"s", "S"}
        /\ s[i + 2] \in {"o", "O"}
        /\ s[i + 3] \in {"n", "N"}

\* the text holds "json" in lower case
HasJsonLowerCase(s) ==
    \E i \in 1..(Len(s) - 3) :
        s[i] = "j" /\ s[i + 1] = "s" /\ s[i + 2] = "o" /\ s[i + 3] = "n"

\* a 2xx final response that request() does not treat as empty
NonEmptySuccess ==
    /\ HasFinalResponse
    /\ Ok(response[1])
    /\ response[1].status # 204
    /\ "content-length" \in DOMAIN response[1].headers
    /\ response[1].headers["content-length"] # <<>>

\* C6: a 2xx response that is not treated as empty resolves to the JSON-parsed body
\* when its Content-Type contains "json" in any letter case (and rejects when the body
\* cannot be read or parsed), and to the body text otherwise, a missing Content-Type
\* included.
C6_BodyByContentType ==
    NonEmptySuccess =>
        LET res == response[1]
        IN IF HasJsonAnyCase(ContentTypeOf(res))
           THEN IF ~res.body.broken /\ JsonParse(res.body.text) # None
                THEN outcome = Resolved(JsonVal(JsonParse(res.body.text)[1]))
                ELSE outcome.state = "rejected" /\ outcome.error.name # "ApiError"
           ELSE IF ~res.body.broken
                THEN outcome = Resolved(TextVal(res.body.text))
                ELSE outcome.state = "rejected" /\ outcome.error.name # "ApiError"

\* C6 witness: an upper-case JSON Content-Type whose body was parsed
C6_Witness ==
    /\ NonEmptySuccess
    /\ ContentTypeOf(response[1]) = CT_JSON_UPPER
    /\ outcome = Resolved(JsonVal(<<[id |-> "1"]>>))

\* the final response is non-2xx
FinalNon2xx == HasFinalResponse /\ ~Ok(response[1])

\* C7: request() rejects with an ApiError exactly when the final response is non-2xx
\* (the error then carries its status and statusText and isTimeout false) or when the
\* request exceeded its timeout.
C7_ApiErrorCases ==
    pc = "done" =>
        /\ (outcome.state = "rejected" /\ outcome.error.name = "ApiError")
              <=> (FinalNon2xx \/ timer = "fired")
        /\ FinalNon2xx =>
              /\ outcome.error.status = response[1].status
              /\ outcome.error.statusText = response[1].statusText
              /\ ~outcome.error.isTimeout

\* the best-effort body of a non-2xx response
ExpectedErrorBody(res) ==
    IF res.body.broken THEN Null
    ELSE IF HasJsonLowerCase(ContentTypeOf(res))
    THEN IF JsonParse(res.body.text) # None
         THEN JsonVal(JsonParse(res.body.text)[1]) ELSE Null
    ELSE TextVal(res.body.text)

\* C8: for a non-2xx final response request() rejects with an ApiError carrying the
\* response status, whose body is the parsed JSON when Content-Type contains "json",
\* the text otherwise, and null when reading or parsing the body fails.
C8_ErrorBodyBestEffort ==
    FinalNon2xx =>
        /\ outcome.state = "rejected"
        /\ outcome.error.name = "ApiError"
        /\ outcome.error.status = response[1].status
        /\ outcome.error.body = ExpectedErrorBody(response[1])

\* C8 witness: a JSON error response whose body does not parse
C8_Witness ==
    /\ FinalNon2xx
    /\ response[1].status = 404
    /\ ContentTypeOf(response[1]) = CT_JSON
    /\ response[1].body = [text |-> "", broken |-> FALSE]
    /\ outcome.error.name = "ApiError"
    /\ outcome.error.body = Null

\* the walk order [errorLocale (if given), client locale, "es", "en"], each locale
\* listed once, at its first place
ExpectedPreference ==
    LET first == options.errorLocale
        second == IF \E i \in 1..Len(first) : first[i] = config.locale
                  THEN first ELSE Append(first, config.locale)
        third == IF \E i \in 1..Len(second) : second[i] = "es"
                 THEN second ELSE Append(second, "es")
    IN IF \E i \in 1..Len(third) : third[i] = "en" THEN third ELSE Append(third, "en")

\* the locale's dictionary has an entry for the status: an override or a default
HasEntry(loc, status) ==
    \/ loc \in DOMAIN config.errorMessages /\ status \in DOMAIN config.errorMessages[loc]
    \/ loc \in DOMAIN DEFAULT_ERROR_MESSAGES /\ status \in DOMAIN DEFAULT_ERROR_MESSAGES[loc]

\* that entry, the override winning
Entry(loc, status) ==
    IF loc \in DOMAIN config.errorMessages /\ status \in DOMAIN config.errorMessages[loc]
    THEN config.errorMessages[loc][status]
    ELSE DEFAULT_ERROR_MESSAGES[loc][status]

\* the locale's dictionary has a message for the status, and it is not empty
HasMessage(loc, status) == HasEntry(loc, status) /\ Entry(loc, status) # <<>>

\* C9: the message of the ApiError of a non-2xx response is the entry of the
\* first locale of the preference list whose dictionary (overrides over defaults)
\* has an entry for the status.
C9_FirstDictionaryEntry ==
    FinalNon2xx =>
        LET status == response[1].status
            list == ExpectedPreference
        IN \A i \in 1..Len(list) :
              (HasEntry(list[i], status) /\ \A j \in 1..(i - 1) : ~HasEntry(list[j], status))
                 => outcome.error.message = Entry(list[i], status)

\* the generic template of the client's locale, the "es" one when it has none, filled in
ExpectedGeneric(status, statusText) ==
    (IF config.locale = "en"
     THEN <<"Network", " ", "error", " ", "(">>
     ELSE <<"Error", " ", "de", " ", "red", " ", "(">>)
    \o <<ToString(status), " ">> \o statusText \o <<")">>

\* C10: when no locale of the preference list has a message for the status, the message
\* is the generic template of the client's locale (of "es" when that locale has none,
\* never of the per-call errorLocale) filled with status and statusText, without
\* surrounding whitespace.
C10_GenericFallback ==
    (/\ FinalNon2xx
     /\ \A i \in 1..Len(ExpectedPreference) :
           ~HasMessage(ExpectedPreference[i], response[1].status))
    => LET message == outcome.error.message
       IN /\ message = ExpectedGeneric(response[1].status, response[1].statusText)
          /\ message[1] # " "
          /\ message[Len(message)] # " "

\* C10 witness: a "fr" client, errorLocale "en", status 418: the "es" template
C10_Witness ==
    /\ FinalNon2xx
    /\ response[1].status = 418
    /\ response[1].statusText = <<"Not", " ", "Found">>
    /\ config.locale = "fr"
    /\ options.errorLocale = Some("en")
    /\ outcome.error.message =
          <<"Error", " ", "de", " ", "red", " ", "(", "418", " ", "Not", " ", "Found", ")">>

-----------------------------------------------------------------------------
(* Properties of request building *)

\* fetchImpl has been called with the pair request() built
Dispatched == fetchCalls >= 1 /\ outbound # None

\* C11: for every base address and every path p written without a leading slash,
\* request("/" + p) and request(p) are dispatched to the same final URL.
C11_LeadingSlashIgnored ==
    Dispatched =>
        \A p \in RelativePaths :
            /\ options.path = <<"/">> \o p
                  => outbound[1].url = buildUrl(p, options.searchParams)
            /\ options.path = p
                  => outbound[1].url = buildUrl(<<"/">> \o p, options.searchParams)

\* C11 witness: get("/users/7") on the base https://api.test/v1 goes where
\* get("users/7") goes, under the base's path
C11_Witness ==
    /\ Dispatched
    /\ config.baseUrl = ConstructBaseUrl(BASE_V1_OPEN)
    /\ options.path = <<"/", "users", "/", "7">>
    /\ options.searchParams = Some(<< <<"page", Scalar("2")>> >>)
    /\ outbound[1].url = <<"https:", "/", "/", "api.test", "/", "v1", "/", "users", "/",
                           "7", "?", "page", "=", "2">>

\* the path prefix of the base address: its segments up to the last "/"
BasePrefix == Shorten(config.baseUrl.path)

IsPrefix(a, b) == Len(a) <= Len(b) /\ SubSeq(b, 1, Len(a)) = a

\* C12: whatever the path string (a leading slash, several, dot-dot segments, a full
\* URL), the dispatched URL has the origin of the base address and a path that begins
\* with the base's path prefix.
C12_StaysUnderBase ==
    Dispatched =>
        LET url == NewURL(outbound[1].url, None)
        IN /\ Origin(url) = Origin(config.baseUrl)
           /\ IsPrefix(BasePrefix, url.path)

\* C13: when the configured base URL carries a query string and the searchParams
\* serialize to a non-empty string, the query of the dispatched URL is the base's
\* parameters, then "&", then the serialized searchParams.
C13_BaseQueryKept ==
    \A raw \in BaseUrls :
        (/\ HasQuery(raw)
         /\ config.baseUrl = ConstructBaseUrl(raw)
         /\ Dispatched
         /\ toQueryString(options.searchParams) # <<>>)
        => AfterQuery(outbound[1].url) =
              Some(AfterQuery(raw)[1] \o <<"&">> \o toQueryString(options.searchParams))

CONTENT_TYPE_LOWER == <<"c", "o", "n", "t", "e", "n", "t", "-", "t", "y", "p", "e">>

\* the per-call headers of the call, none when the option is absent
OverrideList == IF options.headers = None THEN <<>> ELSE options.headers[1]

\* the entries of a header list that carry the lower-case name n
Named(list, n) == {i \in 1..Len(list) : LowerCase(list[i][1]) = n}

\* the overlay of the default headers by the per-call headers: for each name, in lower
\* case, the per-call value when the call gives one, the default value otherwise
ExpectedHeaders ==
    LET names == {LowerCase(config.headers[i][1]) : i \in 1..Len(config.headers)}
                    \cup {LowerCase(OverrideList[i][1]) : i \in 1..Len(OverrideList)}
    IN [n \in names |->
          IF Named(OverrideList, n) # {}
          THEN OverrideList[CHOOSE i \in Named(OverrideList, n) : TRUE][2]
          ELSE config.headers[CHOOSE i \in Named(config.headers, n) : TRUE][2]]

\* C14: the dispatched headers are the default headers overlaid by the per-call
\* headers, names compared without regard to letter case and the per-call value
\* winning; no header is lost, and none is added but the injected Content-Type.
C14_HeadersOverlay ==
    Dispatched =>
        LET sent == outbound[1].init.headers
        IN /\ \A n \in DOMAIN ExpectedHeaders :
                 n \in DOMAIN sent /\ sent[n] = ExpectedHeaders[n]
           /\ DOMAIN sent \subseteq (DOMAIN ExpectedHeaders) \cup {CONTENT_TYPE_LOWER}

\* C15: when a body other than a FormData is sent, Content-Type: application/json is
\* injected only if the merged headers hold no Content-Type; one given by the caller
\* or by the defaults reaches the transport unchanged.
C15_ContentTypeOnlyIfMissing ==
    (/\ Dispatched
     /\ outbound[1].init.body # NoBody
     /\ options.body.kind # "FormData")
    => LET sent == outbound[1].init.headers
       IN /\ CONTENT_TYPE_LOWER \in DOMAIN sent
          /\ sent[CONTENT_TYPE_LOWER] =
                IF CONTENT_TYPE_LOWER \in DOMAIN ExpectedHeaders
                THEN ExpectedHeaders[CONTENT_TYPE_LOWER] ELSE CT_JSON

\* the JSON text of each plain object of the model
ExpectedJson ==
    (ObjectBody(<<>>) :> "{}")
    @@ (ObjectBody(<<[key |-> "name", t |-> "string", val |-> "Ana"]>>)
           :> "{\"name\":\"Ana\"}")
    @@ (ObjectBody(<<[key |-> "name", t |-> "string", val |-> "Ana"],
                     [key |-> "age", t |-> "number", val |-> "30"]>>)
           :> "{\"name\":\"Ana\",\"age\":30}")
    @@ (ObjectBody(<<[key |-> "nick", t |-> "undefined", val |-> ""],
                     [key |-> "ok", t |-> "boolean", val |-> "true"]>>)
           :> "{\"ok\":true}")

\* C16: a plain object body reaches the transport as its JSON serialization with
\* Content-Type: application/json; a FormData body reaches it as it is and no
\* Content-Type is injected.
C16_ObjectsAsJson ==
    Dispatched =>
        LET init == outbound[1].init
        IN /\ options.body.kind = "object" =>
                 /\ init.body = StringBody(ExpectedJson[options.body])
                 /\ CONTENT_TYPE_LOWER \in DOMAIN init.headers
                 /\ init.headers[CONTENT_TYPE_LOWER] = CT_JSON
           /\ options.body.kind = "FormData" =>
                 /\ init.body = FormDataBody
                 /\ init.headers = ExpectedHeaders

\* C16 witness: post("/users", {body: {name: "Ana", age: 30}}) on a client whose
\* default headers hold a Content-Type of text/plain
C16_Witness ==
    /\ Dispatched
    /\ options.method = "POST"
    /\ CONTENT_TYPE_LOWER \in DOMAIN ExpectedHeaders
    /\ options.body = ObjectBody(<<[key |-> "name", t |-> "string", val |-> "Ana"],
                                   [key |-> "age", t |-> "number", val |-> "30"]>>)
    /\ outbound[1].init.body = StringBody("{\"name\":\"Ana\",\"age\":30}")
    /\ outbound[1].init.headers[CONTENT_TYPE_LOWER] = CT_JSON

\* C17: a string body (the empty string included), a Blob or a FormData reaches the
\* transport unchanged; without a body the transport gets no body and no Content-Type
\* is injected.
C17_BodiesHandedUnchanged ==
    Dispatched =>
        LET init == outbound[1].init
        IN /\ options.body.kind \in {"string", "Blob", "FormData"} =>
                 init.body = options.body
           /\ options.body.kind = "undefined" =>
                 /\ init.body = NoBody
                 /\ init.headers = ExpectedHeaders

\* how many error-level entries the log holds
ErrorEntries(l) == Cardinality({i \in 1..Len(l) : l[i].level = "error"})

\* C18: when the transport rejects while request() awaits it, request() rejects with
\* the very error of the transport, after exactly one error-level log entry if a logger
\* is configured; unless the error is a cancellation (AbortError), which is surfaced as
\* the ApiError of status 408.
C18_TransportFailureAsIs ==
    [][\A err \in TransportErrors :
          (pc = "waiting" /\ TransportReject(err)) =>
              IF err.name = "AbortError"
              THEN outcome' = Rejected(ApiError(408, <<"Timeout">>,
                                                <<"Request", " ", "timeout">>, Null, TRUE))
              ELSE /\ outcome' = Rejected(err)
                   /\ ErrorEntries(logs') = (IF config.logger THEN 1 ELSE 0)
                   /\ config.logger => /\ Len(logs') = Len(logs) + 1
                                       /\ logs'[Len(logs')].level = "error"]_vars

\* C18 witness: a call on a client with a logger, ended by the transport's TypeError
C18_Witness ==
    /\ pc = "done"
    /\ transport = "rejected"
    /\ timer = "cleared"
    /\ config.logger
    /\ outcome = Rejected(OtherError("TypeError", "fetch failed"))
    /\ logs[Len(logs)].level = "error"

\* C19: when the signal the caller passed in options fires while the transport call is
\* in flight, the signal the transport was handed is aborted.
C19_CallerSignalReachesTransport ==
    (transport = "pending" /\ callerAborted) =>
        SignalAborted(outbound[1].init.signal)

\* C20: a failure raised by the request interceptor or by the response interceptor
\* does not become the outcome of request().
C20_InterceptorFailuresIgnored ==
    outcome.state = "rejected" =>
        outcome.error \notin {OtherError("Error", "request interceptor failed"),
                              OtherError("Error", "response interceptor failed")}

-----------------------------------------------------------------------------
(* Properties of logging, timers and timeout errors *)

\* C21: whatever the transports of the logger do at a log point (work, return a
\* rejected promise, throw), request() never ends with the failure of a log transport:
\* its outcome is the one it has without a logger.
C21_LoggingNeverAffectsOutcome ==
    outcome.state = "rejected" => outcome.error # LogFailure

\* C22: with a logger, a request that has ended has logged a debug entry before the
\* transport was invoked and exactly one closing entry: a debug entry when it resolved,
\* an error entry when it rejected.
C22_OpeningAndClosingEntry ==
    (config.logger /\ Settled) =>
        /\ Len(logs) = 2
        /\ logs[1].level = "debug"
        /\ logs[2].level = (IF outcome.state = "resolved" THEN "debug" ELSE "error")

\* C23: once the outcome of request() is determined its timer is not pending, and the
\* timer fires only while the transport call is pending.
C23_NoTimerLeak ==
    /\ [](Settled => timer # "pending")
    /\ [][(timer' = "fired" /\ timer # "fired") => transport = "pending"]_vars

\* C23 witness: the transport settled first and the timer was cleared
C23_Witness ==
    /\ Settled
    /\ transport = "fulfilled"
    /\ timer = "cleared"

\* C28: request() rejects with an error whose isTimeout is true only if the timer of
\* the call fired before its transport settled.
C28_TimeoutFlagTruthful ==
    (outcome.state = "rejected" /\ outcome.error.isTimeout) => timer = "fired"

\* C29: the message of the ApiError of a timeout is the message resolved for status
\* 408 through the locale preference list and the configured overrides.
C29_TimeoutMessageLocalized ==
    (/\ outcome.state = "rejected"
     /\ outcome.error.name = "ApiError"
     /\ outcome.error.isTimeout)
    => outcome.error.message = resolveErrorMessage(408, <<"Timeout">>, options.errorLocale)

-----------------------------------------------------------------------------
(* Properties of toQueryString *)

\* the query string of each searchParams object of the model
ExpectedQuery ==
    (Some(<<>>) :> <<>>)
    @@ (Some(<< <<"page", Scalar("2")>> >>) :> <<"page", "=", "2">>)
    @@ (Some(<< <<"tag", List(<<Scalar("a b"), Scalar("c")>>)>>,
                <<"page", Scalar("2")>>,
                <<"q", NullParam>> >>)
           :> <<"page", "=", "2", "&", "tag", "=", "a%20b", "&", "tag", "=", "c">>)
    @@ (Some(<< <<"tags", List(<<Scalar("a"), Scalar("b")>>)>>,
                <<"active", Bool(TRUE)>> >>)
           :> <<"active", "=", "true", "&", "tags", "=", "a", "&", "tags", "=", "b">>)
    @@ (Some(<< <<"active", Bool(TRUE)>>,
                <<"tags", List(<<Scalar("a"), Scalar("b")>>)>> >>)
           :> <<"active", "=", "true", "&", "tags", "=", "a", "&", "tags", "=", "b">>)
    @@ (Some(<< <<"q", UndefinedParam>>,
                <<"filters", Obj(<< <<"status", Scalar("open")>>,
                                    <<"kind", Scalar("x&y")>> >>)>>,
                <<"active", Bool(FALSE)>> >>)
           :> <<"active", "=", "false", "&", "filters%5Bkind%5D", "=", "x%26y", "&",
                "filters%5Bstatus%5D", "=", "open">>)

\* C25: with default options the query string of the searchParams has its keys in
\* alphabetical order whatever their insertion order, booleans as true/false, an array
\* as its key repeated once per element in element order, a nested object as
\* parent[child] keys, and no pair for null and undefined values.
C25_QuerySerialization ==
    (/\ Dispatched
     /\ config.baseUrl = ConstructBaseUrl(BASE_ROOT)
     /\ options.path = <<"/", "users">>
     /\ options.searchParams # None)
    => outbound[1].url =
          <<"https:", "/", "/", "api.test", "/", "users">>
             \o (IF ExpectedQuery[options.searchParams] = <<>> THEN <<>>
                 ELSE <<"?">> \o ExpectedQuery[options.searchParams])

\* C25 witness: {tags: ["a", "b"], active: true} gives active=true&tags=a&tags=b
C25_Witness ==
    /\ Dispatched
    /\ options.path = <<"/", "users">>
    /\ options.searchParams = Some(<< <<"tags", List(<<Scalar("a"), Scalar("b")>>)>>,
                                      <<"active", Bool(TRUE)>> >>)
    /\ outbound[1].url = <<"https:", "/", "/", "api.test", "/", "users", "?", "active", "=",
                           "true", "&", "tags", "=", "a", "&", "tags", "=", "b">>

-----------------------------------------------------------------------------
(* Properties of concurrent requests *)

\* what belongs to the first call
ownVars == <<pc, options, fetchCalls, transport, timer, aborted, wt, response,
             bodyUsed, outcome, outbound, callerAborted>>

\* a timeout error of a call comes from the timer or the transport of that call
OwnTimeoutOnly(o, t, tr) ==
    (o.state = "rejected" /\ o.error.isTimeout) => (t = "fired" \/ tr = "rejected")

\* C24: two calls on one client are independent: no step changes the configuration,
\* a step of one call leaves the timer, the signal and the outcome of the other as
\* they are, and a call ends with a timeout error only through its own timer or
\* transport.
C24_RequestsIndependent ==
    /\ [][/\ config' = config
          /\ peer' # peer => UNCHANGED ownVars
          /\ ownVars' # ownVars => peer' = peer]_vars
    /\ [](/\ OwnTimeoutOnly(outcome, timer, transport)
          /\ OwnTimeoutOnly(peer.outcome, peer.timer, peer.transport))

\* C24 witness: the second call timed out while the first was in flight, and the
\* first resolved with the body of its own response
C24_Witness ==
    /\ peer.outcome = Rejected(TimeoutError)
    /\ peer.timer = "fired"
    /\ timer = "cleared"
    /\ outcome = Resolved(JsonVal(<<[id |-> "1"]>>))

-----------------------------------------------------------------------------
(* Properties of StorageManager *)

\* the TTL of a set has elapsed: more than ttlMs milliseconds since the call
Elapsed(w) == w.ttl # None /\ now > w.at + w.ttl[1]

\* exactly ttlMs milliseconds since the call
AtDeadline(w) == w.ttl # None /\ now = w.at + w.ttl[1]

\* C26: get(key) returns the value of the last set of the key while its TTL has not
\* elapsed (and always when it was set without TTL); once the TTL has elapsed get
\* returns null and the entry is gone from the Storage; a key that was never set, or
\* was removed or cleared, gives null.  At the very millisecond of the deadline
\* either answer is accepted.
C26_StorageTtl ==
    result # None =>
        LET key == result[1].key
            w == written[key]
        IN IF w = None THEN result[1].value = None
           ELSE IF Elapsed(w[1])
                THEN result[1].value = None /\ storage[key] = None
           ELSE IF AtDeadline(w[1])
                THEN result[1].value \in {None, Some(w[1].value)}
           ELSE result[1].value = Some(w[1].value)

\* the same for the calls whose ttlMs is omitted or positive
C26_PositiveTtl ==
    (result # None /\ written[result[1].key] # None
        /\ written[result[1].key][1].ttl = Some(0))
    \/ C26_StorageTtl

-----------------------------------------------------------------------------
(* Properties of the scaffolding command *)

\* --force was given: as the bare flag or as --force=true
ForceGiven(args) ==
    \E i \in 1..Len(args) : args[i] \in {FLAG_FORCE, FLAG_FORCE_TRUE}

\* the three files of each resource and what the templates are filled with
ExpectedScaffold(resource, args) ==
    LET route(default) == IF \E i \in 1..Len(args) : args[i] = FLAG_ROUTE
                          THEN "/v2" ELSE default
    IN CASE resource = RES_USERS ->
              << <<"api/users/index.ts",
                   Content("api", "Users", "User", route("/users"), "", "")>>,
                 <<"hooks/users/useUsers.ts",
                   Content("hooks", "Users", "User", "", "users", "../../api/users")>>,
                 <<"hooks/users/index.ts",
                   Content("hooksIndex", "Users", "", "", "", "")>> >>
         [] resource = RES_NESTED ->
              << <<"api/admin/user-POSTS/index.ts",
                   Content("api", "UserPosts", "UserPost",
                           route("/admin/user-POSTS"), "", "")>>,
                 <<"hooks/admin/user-POSTS/useUserPosts.ts",
                   Content("hooks", "UserPosts", "UserPost", "", "admin/user-POSTS",
                           "../../../api/admin/user-POSTS")>>,
                 <<"hooks/admin/user-POSTS/index.ts",
                   Content("hooksIndex", "UserPosts", "", "", "", "")>> >>
         [] resource = RES_CATEGORIES ->
              << <<"api/categories/index.ts",
                   Content("api", "Categories", "Category", route("/categories"), "", "")>>,
                 <<"hooks/categories/useCategories.ts",
                   Content("hooks", "Categories", "Category", "", "categories",
                           "../../api/categories")>>,
                 <<"hooks/categories/index.ts",
                   Content("hooksIndex", "Categories", "", "", "", "")>> >>

\* C27: when runCli(["create", resource, ...]) has completed, each of the three
\* target files exists; it holds the generated template when it did not exist
\* before the command or --force was given, and its previous content otherwise.
C27_ScaffoldsThreeFiles ==
    cli.pc = "done" =>
        LET expected == ExpectedScaffold(cli.resource, cli.args)
        IN \A i \in 1..3 :
              LET file == expected[i][1]
              IN /\ file \in DOMAIN files
                 /\ files[file] = IF file \notin DOMAIN filesBefore \/ ForceGiven(cli.args)
                                  THEN expected[i][2]
                                  ELSE filesBefore[file]

\* C27 witness: a finished command without --force that found one of its files and
\* kept it, and generated another
C27_Witness ==
    /\ cli.pc = "done"
    /\ cli.resource = RES_NESTED
    /\ ~ForceGiven(cli.args)
    /\ "api/admin/user-POSTS/index.ts" \in DOMAIN filesBefore
    /\ files["api/admin/user-POSTS/index.ts"] = PREVIOUS
    /\ "hooks/admin/user-POSTS/useUserPosts.ts" \notin DOMAIN filesBefore
    /\ files["hooks/admin/user-POSTS/useUserPosts.ts"].kind = "hooks"

-----------------------------------------------------------------------------
(* Properties of Logger *)

\* error < warn < info < debug
Verbosity == [l \in MethodLevels |->
                 CASE l = "error" -> 1 [] l = "warn" -> 2 [] l = "info" -> 3
                   [] l = "debug" -> 4]

\* L is at most as verbose as C
AtMostAsVerbose(level, current) ==
    current \in MethodLevels /\ Verbosity[level] <= Verbosity[current]

\* the last log call handed its entry to every transport, or to none, according to
\* the level of its logger
FilteredByLevel ==
    lastLog # None =>
        LET current == loggers[lastLog[1].logger].level
        IN \A t \in 1..Len(logTransports) :
              lastLog[1].called[t] <=> AtMostAsVerbose(lastLog[1].level, current)

\* a step leaves the loggers as they are, or changes the level of one of them, or
\* adds a child with the level of its parent and the namespace parent:child (the
\* child's name alone under a parent without namespace); the transports stay the
\* shared ones
LevelsAndChildren ==
    /\ loggers # <<>> => logTransports' = logTransports
    /\ Len(loggers') = Len(loggers) =>
          \E i \in 1..MaxLoggers :
             \A j \in 1..Len(loggers) :
                /\ loggers'[j].namespace = loggers[j].namespace
                /\ j # i => loggers'[j].level = loggers[j].level
    /\ (loggers # <<>> /\ Len(loggers') # Len(loggers)) =>
          /\ SubSeq(loggers', 1, Len(loggers)) = loggers
          /\ Len(loggers') = Len(loggers) + 1
          /\ \E i \in 1..Len(loggers), name \in ChildNamespaces :
                /\ loggers'[Len(loggers')].level = loggers[i].level
                /\ loggers'[Len(loggers')].namespace =
                      IF loggers[i].namespace \in {None, Some("")}
                      THEN Some(name)
                      ELSE Some(loggers[i].namespace[1] \o ":" \o name)

\* C30: a log call of level L on a logger whose level is C hands the entry to every
\* transport of the logger if and only if C is not "silent" and L is at most as
\* verbose as C; setLevel changes the level of that logger only, and a child starts
\* with the level of its parent, the parent's transports and the namespace
\* parent:child.
C30_LevelFiltering == []FilteredByLevel /\ [][LevelsAndChildren]_vars

\* the same for loggers none of whose transports throws
C30_WithoutThrowingTransport ==
    /\ [](FilteredByLevel \/ \E t \in 1..Len(logTransports) : logTransports[t] = "throws")
    /\ [][LevelsAndChildren]_vars

====
